---- MODULE Spec2Model ----
(***************************************************************************)
(* State-machine model of the zmeta-stack backend: the WebSocket hub       *)
(* (backend/app/ws.py), the metrics registry and sequence counter          *)
(* (backend/app/state.py, metrics.py), the alert deduper (state.py), the   *)
(* NDJSON recorder (tools/recorder.py) and the ingest pipeline             *)
(* (backend/app/ingest.py).                                                *)
(*                                                                         *)
(* The program runs on one asyncio event loop: code between two awaits     *)
(* that really suspend runs atomically, so every action below is one such  *)
(* stretch of code.                                                        *)
(***************************************************************************)
EXTENDS Integers, Sequences, FiniteSets, TLC

(***************************************************************************)
(* Bounds of the model.                                                    *)
(***************************************************************************)
NumSockets == 2             \* socket objects that exist
NumTasks == 2               \* tasks that may call into the hub
HubSockets == 1             \* sockets that connect under SpecHub
HubBroadcasts == 4          \* broadcast_text calls made under SpecHub
MaxDisconnectCalls == 2     \* direct calls of WSHub.disconnect under SpecDisc
DiscBroadcasts == 3         \* broadcast_text calls made under SpecDisc
FanTasks == 1               \* callers of broadcast_text under SpecFan
FanBroadcasts == 2          \* broadcast_text calls made under SpecFan
MaxWsQueue == 2             \* largest WS_QUEUE configured
MaxRetries == 2             \* largest max_backpressure_retries configured
NumThreads == 2             \* threads calling MetricsProvider.next_sequence
MaxThreadCalls == 2         \* next_sequence calls made by those threads
MaxIngests == 3             \* validate_or_adapt calls under SpecSeq
MaxSuppliedSeq == 2         \* largest sequence a payload supplies
MaxTime == 3                \* last tick of the clock
MaxDedupCalls == 3          \* should_send calls under SpecDedup
DedupTtl == 2               \* AlertDeduper.ttl, in ticks
DedupMaxKeys == 1           \* AlertDeduper.max
RecQueueMax == 2            \* maxsize of NDJSONRecorder.queue
MaxRecLines == 3            \* enqueue calls under SpecRec
MaxHour == 2                \* last UTC hour the clock reaches
TicksPerHour == 3           \* ticks of the clock in an hour
MaxAgeHours == 1            \* largest RECORDER_RETENTION_HOURS configured
MaxPipeIngests == 2         \* ingest_payload calls under SpecPipe
MaxFaultIngests == 3        \* ingest_payload calls under SpecFault
FaultSockets == 2           \* subscribers under SpecFault
UdpQueueMax == 1            \* UDP_QUEUE_MAX, scaled down
MaxDatagrams == 3           \* datagrams received under SpecUdp
MaxRules == 2               \* items of the rule file
MaxEvals == 3               \* RuleSet.eval calls under SpecRules
RuleCooldown == 2           \* cooldown_seconds of a rule that has one, in ticks
AuthSockets == 2            \* upgrade requests under SpecAuth
MaxAuthPosts == 2           \* POST /ingest requests under SpecAuth
MaxConds == 2               \* conditions of a rule
MaxMatchEvals == 2          \* RuleSet.eval calls under SpecMatch
MaxReloadSteps == 4         \* eval and load calls under SpecReload
UdpConsumer == 1            \* the task app_lifespan creates for udp_consumer
PipeTasks == 1              \* tasks that call ingest_payload under SpecPipe
PipeSockets == 1            \* sockets that connect under SpecPipe
OverlapTasks == 2           \* tasks that call ingest_payload under SpecOverlap
OverlapSockets == 1         \* sockets that connect under SpecOverlap
MaxOverlapIngests == 3      \* ingest_payload calls under SpecOverlap

Max(a, b) == IF a >= b THEN a ELSE b

Sockets ==
    1..Max(Max(Max(NumSockets, HubSockets), Max(PipeSockets, FaultSockets)), AuthSockets)
Tasks == 1..Max(Max(NumTasks, FanTasks), Max(PipeTasks, OverlapTasks))
Threads == 1..NumThreads

NoMsg == [kind |-> "none", id |-> 0, seq |-> 0]
TextMsg(n) == [kind |-> "text", id |-> n, seq |-> 0]

\* z.model_dump_json() of the n-th accepted event.
EventMsg(n, sequence) == [kind |-> "event", id |-> n, seq |-> sequence]

\* dumps(alert) of the alert a rule derived from the n-th accepted event;
\* the length of the rule's name tells the rules apart.
AlertMsg(n, alert) == [kind |-> "alert", id |-> n, seq |-> Len(alert.rule)]

VARIABLES
    wsQueueMax,     \* config.WS_QUEUE_MAX, the maxsize of every client queue
    maxBackpressureRetries, \* WSHub.max_backpressure_retries
    clients,        \* WSHub._clients: registered sockets, in insertion order
    queues,         \* WSClient.queue of every socket
    dropCounts,     \* WSHub._drop_counts (0 = no entry)
    sender,         \* position of each socket's _sender task
    inflight,       \* message a sender popped and is transmitting
    route,          \* position of each socket's websocket_endpoint handler
    closed,         \* number of websocket.close() calls per socket
    wsSentTotal,    \* Stats.ws_sent_total
    wsDroppedTotal, \* Stats.ws_dropped_total
    task,           \* state of each task that calls broadcast_text
    calls,          \* history: message and snapshot of every broadcast_text call
    returned,       \* history: the broadcast_text calls that have returned
    acceptedLog,    \* history: messages accepted into each socket's queue
    sentLog,        \* history: messages each sender transmitted
    consec,         \* history: consecutive timed-out puts per socket
    evictedBy,      \* history: which path removed the socket from the registry
    lastDisconnect  \* history: the latest direct call of WSHub.disconnect

VARIABLES
    sequenceCounter, \* Stats.sequence_counter
    adapterCounts,  \* Stats.adapter_counts
    metricsLock,    \* MetricsProvider._lock: 0, or the thread that holds it
    thread,         \* position of each thread inside next_sequence
    issued,         \* history: the values next_sequence returned, in order
    acceptedEvents, \* history: the events validate_or_adapt returned, in order
    rejectedTotal,  \* history: validate_or_adapt calls that raised
    threadCalls,    \* history: next_sequence calls the threads have made
    lastCall        \* history: payload and outcome of the last validate_or_adapt

VARIABLES
    now,            \* time.time(), in ticks
    seen,           \* AlertDeduper._seen: key -> time of the last alert sent
    totalChecked,   \* AlertDeduper.total_checked
    totalSuppressed, \* AlertDeduper.total_suppressed
    dedupLog        \* history: key, time and result of every should_send call

VARIABLES
    hour,           \* datetime.now(timezone.utc), in whole hours
    subHour,        \* datetime.now(timezone.utc), the ticks past the whole hour
    recMaxAge,      \* NDJSONRecorder.max_age in ticks (0 = None)
    recQueue,       \* NDJSONRecorder.queue
    recTask,        \* NDJSONRecorder._task: none, running, cancelled or dead
    recFh,          \* NDJSONRecorder._fh: hour of the open file (-1 = no open file)
    recStale,       \* NDJSONRecorder._fh refers to a handle that has been closed
    recHandles,     \* the hour files on which the process holds an open handle
    recWrites,      \* history: every line written, the hour then, and the file
    recStopped,     \* how stop() ended: "no" (not called), "returned" or an exception
    recHourKey,     \* NDJSONRecorder._hour_key (-1 = None)
    recFiles,       \* the hour files under base_dir
    totalWritten,   \* NDJSONRecorder.total_written
    droppedTotal,   \* NDJSONRecorder.dropped_total
    recOffered      \* history: every line passed to enqueue, and whether it was queued

VARIABLES
    ingest,         \* locals of each task inside ingest_payload
    validatedTotal, \* Stats.validated_total
    alertsTotal,    \* Stats.alerts_total
    dispatched,     \* history: events whose dispatch_zmeta has returned
    pipeLog         \* history: broadcast and enqueue calls of the dispatches

VARIABLES
    udpQueue,       \* the handoff queue between UDPProtocol and udp_consumer
    udpReceived,    \* Stats.udp_received_total
    statsDropped,   \* Stats.dropped_total
    udpDone,        \* task_done() calls on the handoff queue
    udpTaken,       \* history: items udp_consumer got from the handoff queue
    udpTask,        \* udp_consumer: "waiting", "busy", "cancelled", "crashed"
    lastDatagram,   \* history: the datagram of the latest datagram_received
    httpLog,        \* history: the responses of POST /ingest, in order
    sharedSecret,   \* Settings.shared_secret ("" = none configured)
    lastAuth        \* history: the latest request that came to the secret check

VARIABLES
    ruleFile,       \* the items of the "rules" list of the YAML file loaded
    ruleSet,        \* RuleSet.rules
    lastFired,      \* RuleSet._last_fired: rule name -> time (-1 = no entry)
    fireCounts,     \* RuleSet.fire_counts
    evalLog         \* history: time, matching rules and alerts of every eval

seqVars == <<sequenceCounter, adapterCounts, metricsLock, thread, issued,
             acceptedEvents, rejectedTotal, threadCalls, lastCall>>

dedupVars == <<seen, totalChecked, totalSuppressed, dedupLog>>

hubCfg == <<wsQueueMax, maxBackpressureRetries>>

hubVars == <<hubCfg, lastDisconnect, clients, queues, dropCounts, sender, inflight, route, closed,
             wsSentTotal, wsDroppedTotal, task, calls, returned,
             acceptedLog, sentLog, consec, evictedBy>>

\* Everything that is not the hub's.
recVars == <<subHour, recMaxAge, recQueue, recTask, recFh, recHourKey, recFiles,
             totalWritten, droppedTotal, recOffered, recStale, recStopped,
             recHandles, recWrites>>

pipeVars == <<ingest, validatedTotal, alertsTotal, dispatched, pipeLog>>

udpVars == <<udpQueue, udpReceived, udpDone, udpTaken, udpTask, lastDatagram>>

authVars == <<sharedSecret, lastAuth>>

edgeVars == <<udpVars, statsDropped, httpLog, authVars>>

ruleVars == <<ruleFile, ruleSet, lastFired, fireCounts, evalLog>>

\* Everything that is not the hub's.
restVars == <<seqVars, now, dedupVars, hour, recVars, pipeVars, edgeVars, ruleVars>>

vars == <<hubVars, restVars>>

----------------------------------------------------------------------------
(* Helpers on sequences *)

Range(s) == {s[i] : i \in DOMAIN s}

RemoveElem(s, x) == SelectSeq(s, LAMBDA y : y # x)

Registered(ws) == ws \in Range(clients)

\* No caller has called WSHub.disconnect directly yet.
NoDisconnect == [n |-> 0, ws |-> 0, registered |-> FALSE, close |-> "none",
                 raised |-> "none"]

IdleTask == [pc |-> "idle", msg |-> NoMsg, snap |-> <<>>, ret |-> "idle", call |-> 0]

----------------------------------------------------------------------------
(* WSHub *)

InitHub(caps, retries) ==
    /\ wsQueueMax \in caps
    /\ maxBackpressureRetries \in retries
    /\ clients = <<>>
    /\ queues = [ws \in Sockets |-> <<>>]
    /\ dropCounts = [ws \in Sockets |-> 0]
    /\ sender = [ws \in Sockets |-> "none"]
    /\ inflight = [ws \in Sockets |-> NoMsg]
    /\ route = [ws \in Sockets |-> "new"]
    /\ closed = [ws \in Sockets |-> 0]
    /\ wsSentTotal = 0
    /\ wsDroppedTotal = 0
    /\ task = [t \in Tasks |-> IdleTask]
    /\ calls = <<>>
    /\ returned = {}
    /\ acceptedLog = [ws \in Sockets |-> <<>>]
    /\ sentLog = [ws \in Sockets |-> <<>>]
    /\ consec = [ws \in Sockets |-> 0]
    /\ evictedBy = [ws \in Sockets |-> "none"]
    /\ lastDisconnect = NoDisconnect

\* WSHub.connect: accept, allocate queue and sender, register, clear the
\* drop counter.  Socket objects are interchangeable, so they connect in
\* the order of their index.
connect(ws) ==
    /\ route[ws] = "new"
    /\ \A other \in Sockets : other < ws => route[other] # "new"
    /\ route' = [route EXCEPT ![ws] = "serving"]
    /\ queues' = [queues EXCEPT ![ws] = <<>>]
    /\ sender' = [sender EXCEPT ![ws] = "waiting"]
    /\ clients' = Append(clients, ws)
    /\ dropCounts' = [dropCounts EXCEPT ![ws] = 0]
    /\ UNCHANGED <<hubCfg, lastDisconnect, inflight, closed, wsSentTotal, wsDroppedTotal, task,
                   calls, returned, acceptedLog, sentLog, consec, evictedBy>>

\* A queue that reports full while it still has room for one item.
FullOneEarly(q) == Len(q) >= wsQueueMax - 1

\* asyncio.Queue.full() for a queue built with maxsize = WS_QUEUE_MAX >= 1.
QueueFull(q) == Len(q) >= wsQueueMax

\* A put_nowait that puts the item in front of the queued ones.
PutNowaitFront(q, m) == <<m>> \o q

\* asyncio.Queue.put_nowait on a queue with room: the item goes to the tail.
PutNowait(q, m) == Append(q, m)

\* A discard that takes the newest item.
DropNewest(q) == IF q = <<>> THEN q ELSE SubSeq(q, 1, Len(q) - 1)

\* "with suppress(QueueEmpty): queue.get_nowait()": discard the oldest item.
DropOldest(q) == IF q = <<>> THEN q ELSE Tail(q)

\* A threshold test that is off by one.
ThresholdExceeded(dropCount) == dropCount > maxBackpressureRetries

\* The threshold test of _handle_backpressure.
ThresholdReached(dropCount) == dropCount >= maxBackpressureRetries

\* A loop that ends at the first subscriber it has handled.
StopTraversal(snap) == <<>>

\* The for loop of broadcast_text goes on with the rest of its snapshot.
RestOfSnapshot(snap) == Tail(snap)

\* A loop over the registry itself, which takes in the sockets registered
\* since it began.
RestOfRegistry(snap, registry) ==
    Tail(snap) \o SelectSeq(registry, LAMBDA ws : ws > snap[Len(snap)])

\* "for ws, client in list(self._clients.items())": the loop runs over the
\* list made at entry, whatever the registry has become since.
RestOfList(snap, registry) == RestOfSnapshot(snap)

\* The broadcast loop moves to the next subscriber of its snapshot, or
\* returns to its caller when the snapshot is exhausted.
Advance(tk) ==
    LET rest == RestOfList(tk.snap, clients)
    IN  IF rest = <<>>
        THEN [IdleTask EXCEPT !.pc = tk.ret, !.ret = "idle",
                              !.msg = IF tk.ret = "idle" THEN NoMsg ELSE tk.msg]
        ELSE [tk EXCEPT !.pc = "put", !.snap = rest]

\* A cleanup that does not look at the registry.
AlwaysRegistered(ws, registry) == TRUE

\* _sender's finally clause: "if websocket in self._clients".
StillRegistered(ws, registry) == ws \in Range(registry)

\* Where the sender of ws ends up when a disconnect that has popped the
\* registry entry cancels and awaits it: the task leaves its loop through
\* "except CancelledError: pass" and its finally clause calls disconnect
\* only if it finds the socket in the registry.
Cancelled(ws, registry) ==
    IF StillRegistered(ws, registry) THEN "cleanup" ELSE "done"

\* WSHub.disconnect as called by websocket_endpoint's finally clause: pop the
\* registry entry and the drop counter; if the socket was registered, cancel
\* and await its sender, then close the socket.
disconnect(ws) ==
    /\ route[ws] = "serving"
    /\ route' = [route EXCEPT ![ws] = "done"]
    /\ dropCounts' = [dropCounts EXCEPT ![ws] = 0]
    /\ IF Registered(ws)
       THEN /\ clients' = RemoveElem(clients, ws)
            /\ sender' = [sender EXCEPT ![ws] = Cancelled(ws, clients')]
            /\ inflight' = [inflight EXCEPT ![ws] = NoMsg]
            /\ closed' = [closed EXCEPT ![ws] = @ + 1]
            /\ evictedBy' = [evictedBy EXCEPT ![ws] = "route"]
       ELSE UNCHANGED <<clients, sender, inflight, closed, evictedBy>>
    /\ UNCHANGED <<hubCfg, lastDisconnect, queues, wsSentTotal, wsDroppedTotal, task, calls, returned,
                   acceptedLog, sentLog, consec>>

\* What websocket.close() may do: return, or raise because the socket is
\* closed already.
CloseOutcomes == {"ok", "RuntimeError"}

\* A suppress of the wrong class lets the error of close() through.
suppress_CancelledError(outcome) == IF outcome = "ok" THEN "none" ELSE outcome

\* "with contextlib.suppress(Exception): await websocket.close()".
suppress_Exception(outcome) == "none"

\* WSHub.disconnect(websocket) called by any caller on any socket, with
\* the default cancel_sender=True: pop the registry entry and the drop
\* counter; return if there was no entry; else cancel and await the
\* sender, and close the socket under suppress(Exception).
disconnectCall(ws, close) ==
    /\ lastDisconnect.n < MaxDisconnectCalls
    /\ dropCounts' = [dropCounts EXCEPT ![ws] = 0]
    /\ IF Registered(ws)
       THEN /\ clients' = RemoveElem(clients, ws)
            /\ sender' = [sender EXCEPT ![ws] = Cancelled(ws, clients')]
            /\ inflight' = [inflight EXCEPT ![ws] = NoMsg]
            /\ closed' = [closed EXCEPT ![ws] = @ + 1]
            /\ evictedBy' = [evictedBy EXCEPT ![ws] = "caller"]
       ELSE UNCHANGED <<clients, sender, inflight, closed, evictedBy>>
    /\ lastDisconnect' =
          [n |-> lastDisconnect.n + 1, ws |-> ws, registered |-> Registered(ws),
           close |-> IF Registered(ws) THEN close ELSE "none",
           raised |-> IF Registered(ws) THEN suppress_Exception(close) ELSE "none"]
    /\ UNCHANGED <<hubCfg, queues, route, wsSentTotal, wsDroppedTotal, task, calls,
                   returned, acceptedLog, sentLog, consec>>

\* _sender: "message = await queue.get()".
senderGet(ws) ==
    /\ sender[ws] = "waiting"
    /\ queues[ws] # <<>>
    /\ inflight' = [inflight EXCEPT ![ws] = Head(queues[ws])]
    /\ queues' = [queues EXCEPT ![ws] = Tail(@)]
    /\ sender' = [sender EXCEPT ![ws] = "sending"]
    /\ UNCHANGED <<hubCfg, lastDisconnect, clients, dropCounts, route, closed, wsSentTotal,
                   wsDroppedTotal, task, calls, returned, acceptedLog, sentLog, consec,
                   evictedBy>>

\* A sender that ends after the first message it has sent.
SendOnce == "done"

\* _sender: "while True": after a send the task is back at queue.get().
SendLoop == "waiting"

\* _sender: send_text returned; note_ws_sent; back to queue.get().
senderSendOk(ws) ==
    /\ sender[ws] = "sending"
    /\ sentLog' = [sentLog EXCEPT ![ws] = Append(@, inflight[ws])]
    /\ wsSentTotal' = wsSentTotal + 1
    /\ inflight' = [inflight EXCEPT ![ws] = NoMsg]
    /\ sender' = [sender EXCEPT ![ws] = SendLoop]
    /\ UNCHANGED <<hubCfg, lastDisconnect, clients, queues, dropCounts, route, closed, wsDroppedTotal,
                   task, calls, returned, acceptedLog, consec, evictedBy>>

\* _sender: send_text raised; the finally clause disconnects the socket
\* with cancel_sender=False (pop, close) if it is still registered.
senderSendFail(ws) ==
    /\ sender[ws] = "sending"
    /\ inflight' = [inflight EXCEPT ![ws] = NoMsg]
    /\ sender' = [sender EXCEPT ![ws] = "done"]
    /\ IF Registered(ws)
       THEN /\ clients' = RemoveElem(clients, ws)
            /\ dropCounts' = [dropCounts EXCEPT ![ws] = 0]
            /\ closed' = [closed EXCEPT ![ws] = @ + 1]
            /\ evictedBy' = [evictedBy EXCEPT ![ws] = "sender"]
       ELSE UNCHANGED <<clients, dropCounts, closed, evictedBy>>
    /\ UNCHANGED <<hubCfg, lastDisconnect, queues, route, wsSentTotal, wsDroppedTotal, task,
                   calls, returned, acceptedLog, sentLog, consec>>

\* broadcast_text entry: return at once when there is no subscriber, else
\* take the snapshot list(self._clients.items()).
BroadcastEnter(tk, m, ret) ==
    IF clients = <<>>
    THEN [IdleTask EXCEPT !.pc = ret, !.msg = IF ret = "idle" THEN NoMsg ELSE m]
    ELSE [pc |-> "put", msg |-> m, snap |-> clients, ret |-> ret,
          call |-> Len(calls) + 1]

\* Task t calls hub.broadcast_text(m) and goes on at ret when the call
\* returns.
CallBroadcast(t, m, ret) ==
    /\ calls' = Append(calls, [msg |-> m, snap |-> Range(clients)])
    /\ returned' = IF clients = <<>> THEN returned \cup {Len(calls) + 1} ELSE returned
    /\ task' = [task EXCEPT ![t] = BroadcastEnter(@, m, ret)]

\* A caller invokes hub.broadcast_text with a fresh message.  Callers are
\* interchangeable, so the lowest idle one makes the call.
broadcast_text(t, limit) ==
    /\ task[t].pc = "idle"
    /\ \A other \in Tasks : other < t => task[other].pc # "idle"
    /\ Len(calls) < limit
    /\ CallBroadcast(t, TextMsg(Len(calls) + 1), "idle")
    /\ UNCHANGED <<hubCfg, lastDisconnect, clients, queues, dropCounts, sender, inflight, route, closed,
                   wsSentTotal, wsDroppedTotal, acceptedLog, sentLog, consec,
                   evictedBy>>

\* History: the call of a task whose loop ends now has returned.
Returned(tk) ==
    IF RestOfList(tk.snap, clients) = <<>> THEN returned \cup {tk.call} ELSE returned

\* broadcast_text: queue.put finds room and completes; the drop counter
\* of the socket is popped.
bcPutOk(t) ==
    LET ws == Head(task[t].snap)
    IN  /\ task[t].pc \in {"put", "blocked"}
        /\ ~QueueFull(queues[ws])
        /\ queues' = [queues EXCEPT ![ws] = PutNowait(@, task[t].msg)]
        /\ acceptedLog' = [acceptedLog EXCEPT ![ws] = Append(@, task[t].msg)]
        /\ dropCounts' = [dropCounts EXCEPT ![ws] = 0]
        /\ consec' = [consec EXCEPT ![ws] = IF Registered(ws) THEN 0 ELSE @]
        /\ task' = [task EXCEPT ![t] = Advance(@)]
        /\ returned' = Returned(task[t])
        /\ UNCHANGED <<hubCfg, lastDisconnect, clients, sender, inflight, route, closed, wsSentTotal,
                       wsDroppedTotal, calls, sentLog, evictedBy>>

\* broadcast_text: queue.put finds the queue full and waits for room under
\* wait_for's timeout.
bcBlock(t) ==
    LET ws == Head(task[t].snap)
    IN  /\ task[t].pc = "put"
        /\ QueueFull(queues[ws])
        /\ task' = [task EXCEPT ![t].pc = "blocked"]
        /\ UNCHANGED <<hubCfg, lastDisconnect, clients, queues, dropCounts, sender, inflight, route,
                       closed, wsSentTotal, wsDroppedTotal, calls, returned,
                       acceptedLog, sentLog, consec, evictedBy>>

\* broadcast_text: wait_for timed out; the whole of _handle_backpressure,
\* the disconnect of an evicted socket (pop, cancel the sender, close)
\* included, after which the loop goes on.
bcTimeout(t) ==
    LET ws == Head(task[t].snap)
        m == task[t].msg
        dropCount == dropCounts[ws] + 1
        q1 == DropOldest(queues[ws])
        saturated == QueueFull(q1)
        evict == saturated \/ ThresholdReached(dropCount)
    IN  /\ task[t].pc = "blocked"
        /\ wsDroppedTotal' = wsDroppedTotal + 1
        /\ consec' = [consec EXCEPT ![ws] = IF Registered(ws) THEN @ + 1 ELSE @]
        /\ IF saturated
           THEN /\ queues' = [queues EXCEPT ![ws] = q1]
                /\ UNCHANGED acceptedLog
           ELSE /\ queues' = [queues EXCEPT ![ws] = PutNowait(q1, m)]
                /\ acceptedLog' = [acceptedLog EXCEPT ![ws] = Append(@, m)]
        /\ dropCounts' = [dropCounts EXCEPT ![ws] = IF evict THEN 0 ELSE dropCount]
        /\ IF evict /\ Registered(ws)
           THEN /\ clients' = RemoveElem(clients, ws)
                /\ sender' = [sender EXCEPT ![ws] = Cancelled(ws, clients')]
                /\ inflight' = [inflight EXCEPT ![ws] = NoMsg]
                /\ closed' = [closed EXCEPT ![ws] = @ + 1]
                /\ evictedBy' = [evictedBy EXCEPT ![ws] =
                      IF saturated THEN "saturated" ELSE "backpressure"]
           ELSE UNCHANGED <<clients, sender, inflight, closed, evictedBy>>
        /\ task' = [task EXCEPT ![t] = Advance(@)]
        /\ returned' = Returned(task[t])
        /\ UNCHANGED <<hubCfg, lastDisconnect, route, wsSentTotal, calls, sentLog>>

----------------------------------------------------------------------------
(* Sequence counter, schema validation and adapters *)

\* tools.ingest_adapters.ADAPTERS, in registry order.
ADAPTERS == <<"simulated_v1_rf", "simulated_v1_thermal", "klv_like",
              "phone_tracker_v1">>

AdapterNames == Range(ADAPTERS)

\* A frequency in MHz with seven decimals: whole Hz and tenths of a Hz.
Mhz(hz, tenths) == [hz |-> hz, tenths |-> tenths]

\* The payload has no data of type "frequency" in MHz.
NoValue == Mhz(-1, 0)

\* 915.2 MHz, 0.0000004 MHz, 0.0000009 MHz and 4.0000005 MHz.
RfValues == {Mhz(915200000, 0), Mhz(0, 4), Mhz(0, 9), Mhz(4000000, 5)}

\* The data of an event that is no RF event.
NoData == [type |-> "other", value |-> NoValue, frequency_hz |-> -1,
           schema_version |-> "1.0"]

\* A payload, as far as validate_or_adapt can tell payloads apart:
\*   native    - it satisfies the ZMeta schema, its sequence field aside;
\*   hasSeq    - it has a sequence field, and seq is its value;
\*   matches   - the adapters that return a result for it;
\*   adaptedOk - the result of the deciding adapter satisfies the schema;
\*   badType   - source_format or modality is a value other than a string,
\*               null, 0 or false, which the schema (str fields) rejects;
\*   mhz       - the value of its data, if that is of type "frequency" with
\*               units "MHz", which the RF adapter takes by its shape.
Payloads ==
    {p \in [native : BOOLEAN, hasSeq : BOOLEAN, seq : -1..MaxSuppliedSeq,
            matches : SUBSET AdapterNames, adaptedOk : BOOLEAN,
            badType : BOOLEAN, mhz : RfValues \cup {NoValue}] :
        /\ ~p.hasSeq => p.seq = 0
        /\ Cardinality(p.matches) <= 2
        /\ p.matches = {} => ~p.adaptedOk
        /\ p.badType => ~p.native
        /\ p.mhz # NoValue => "simulated_v1_rf" \in p.matches}

\* The payloads of SpecSeq: every sequence input, one adapter, strings
\* where strings belong.
SeqPayloads ==
    {p \in Payloads :
        p.matches \subseteq {"simulated_v1_rf"} /\ ~p.badType /\ p.mhz = NoValue}

\* No payload has been handed in yet.
NoPayload == [native |-> FALSE, hasSeq |-> FALSE, seq |-> 0, matches |-> {},
              adaptedOk |-> FALSE, badType |-> FALSE, mhz |-> NoValue]

NoEvent == [seq |-> 0, assigned |-> FALSE, adapter |-> "none", data |-> NoData,
            input |-> NoValue]

InitSeq ==
    /\ sequenceCounter = 0
    /\ adapterCounts = [n \in AdapterNames \cup {"native"} |-> 0]
    /\ metricsLock = 0
    /\ thread = [th \in Threads |-> [pc |-> "idle", tmp |-> 0]]
    /\ issued = <<>>
    /\ acceptedEvents = <<>>
    /\ rejectedTotal = 0
    /\ threadCalls = 0
    /\ lastCall = [valid |-> FALSE, hasSeq |-> FALSE, seq |-> 0,
                   ok |-> FALSE, event |-> NoEvent, payload |-> NoPayload,
                   error |-> "none", consulted |-> <<>>]

\* A validator that lets every sequence through.
AnySequence(hasSeq, seq) == TRUE

\* ZMeta.validate_sequence: an absent sequence passes, a present one must
\* be >= 0.
validate_sequence(hasSeq, seq) == ~(hasSeq /\ seq < 0)

\* parse_zmeta succeeds on the payload as it came in.
ParseOk(p) == p.native /\ validate_sequence(p.hasSeq, p.seq)

\* adapt_to_zmeta: the name of the first adapter of the registry that returns
\* a result, "none" if every adapter declines.
adapt_to_zmeta(p) ==
    IF \A i \in DOMAIN ADAPTERS : ADAPTERS[i] \notin p.matches
    THEN "none"
    ELSE ADAPTERS[CHOOSE i \in DOMAIN ADAPTERS :
                      /\ ADAPTERS[i] \in p.matches
                      /\ \A j \in 1..(i - 1) : ADAPTERS[j] \notin p.matches]

\* A counter that hands out its value without advancing.
StaleSequence(counter) == counter

\* Stats.next_sequence: the counter after "self.sequence_counter += 1", which
\* is also the value returned.
next_sequence(counter) == counter + 1

\* An assignment that overrides the sequence of the payload.
AlwaysAssign(hasSeq) == TRUE

\* "if zmeta_obj.sequence is None": the service assigns a sequence.
SequenceMissing(hasSeq) == ~hasSeq

\* adapt_simulated_v1_rf, the first adapter of the registry, calls .lower()
\* on "source_format or ''" and "modality or ''" before anything else, which
\* raises AttributeError for a value that is not a string.
AdapterRaises(p) == p.badType

\* A conversion that rounds to the nearest Hz.
RoundToHz(v) == IF v.tenths >= 5 THEN v.hz + 1 ELSE v.hz

\* adapt_simulated_v1_rf: "hz = int(float(val) * 1_000_000)"; int() cuts the
\* fraction of a Hz off.
MhzToHz(v) == v.hz

\* The data of the event validate_or_adapt returns.  SensorData takes any
\* string as type and any number as value, so a payload that satisfies the
\* schema keeps its data as it came in; the RF adapter builds data of type
\* "rf_detection" with frequency_hz.  Neither path sets another
\* schema_version than "1.0".
EventData(p, name) ==
    IF p.mhz = NoValue THEN NoData
    ELSE IF name = "native"
         THEN [type |-> "frequency", value |-> p.mhz, frequency_hz |-> -1,
               schema_version |-> "1.0"]
         ELSE [type |-> "rf_detection", value |-> NoValue,
               frequency_hz |-> MhzToHz(p.mhz), schema_version |-> "1.0"]

\* The adapters validate_or_adapt calls for the payload, in the order of
\* the calls: none when parse_zmeta succeeds; else the registry up to the
\* adapter that decides, which is the first one if that raises.
Consulted(p) ==
    IF ParseOk(p) THEN <<>>
    ELSE IF AdapterRaises(p) THEN SubSeq(ADAPTERS, 1, 1)
    ELSE LET name == adapt_to_zmeta(p)
         IN  IF name = "none" THEN ADAPTERS
             ELSE SubSeq(ADAPTERS, 1, CHOOSE i \in DOMAIN ADAPTERS : ADAPTERS[i] = name)

\* The outcome of validate_or_adapt(payload) with the counter at the given
\* value.  No adapter output has a sequence field (the adapters build their
\* result without one), so an adapted event always has its sequence assigned.
ValidateOrAdapt(p, counter) ==
    LET raises == ~ParseOk(p) /\ AdapterRaises(p)
        name == IF ParseOk(p) THEN "native" ELSE adapt_to_zmeta(p)
        ok == ~raises /\ (ParseOk(p) \/ (name # "none" /\ p.adaptedOk))
        hasSeq == ParseOk(p) /\ p.hasSeq
        assign == SequenceMissing(hasSeq)
    IN  IF ~ok
        THEN [ok |-> FALSE, counter |-> counter, event |-> NoEvent,
              consulted |-> Consulted(p),
              error |-> IF raises THEN "AttributeError" ELSE "ValidationError"]
        ELSE [ok |-> TRUE, error |-> "none", consulted |-> Consulted(p),
              counter |-> IF assign THEN next_sequence(counter) ELSE counter,
              event |-> [seq |-> IF assign THEN next_sequence(counter) ELSE p.seq,
                         assigned |-> assign,
                         adapter |-> name,
                         data |-> EventData(p, name),
                         input |-> p.mhz]]

\* A lock that never excludes anybody.
LockIgnored(owner) == TRUE

\* The lock of MetricsProvider is free.
LockFree(owner) == owner = 0

\* validate_or_adapt, called on the event loop: it holds the metrics lock
\* inside next_sequence and note_adapter only, and has no await.
validate_or_adapt(p) ==
    LET r == ValidateOrAdapt(p, sequenceCounter)
    IN  /\ Len(acceptedEvents) + rejectedTotal < MaxIngests
        /\ LockFree(metricsLock)
        /\ lastCall' = [valid |-> ParseOk(p),
                        hasSeq |-> p.hasSeq, seq |-> p.seq,
                        ok |-> r.ok, event |-> r.event, payload |-> p,
                        error |-> r.error, consulted |-> r.consulted]
        /\ sequenceCounter' = r.counter
        /\ IF r.ok
           THEN /\ acceptedEvents' = Append(acceptedEvents, r.event)
                /\ adapterCounts' = [adapterCounts EXCEPT ![r.event.adapter] = @ + 1]
                /\ issued' = IF r.event.assigned THEN Append(issued, r.event.seq)
                             ELSE issued
                /\ UNCHANGED rejectedTotal
           ELSE /\ rejectedTotal' = rejectedTotal + 1
                /\ UNCHANGED <<acceptedEvents, adapterCounts, issued>>
        /\ UNCHANGED <<metricsLock, thread, threadCalls>>

\* MetricsProvider.next_sequence called from a thread: "with self._lock".
nsAcquire(th) ==
    /\ thread[th].pc = "idle"
    /\ threadCalls < MaxThreadCalls
    /\ threadCalls' = threadCalls + 1
    /\ LockFree(metricsLock)
    /\ metricsLock' = th
    /\ thread' = [thread EXCEPT ![th].pc = "read"]
    /\ UNCHANGED <<sequenceCounter, adapterCounts, issued, acceptedEvents,
                   rejectedTotal, lastCall>>

\* Stats.next_sequence, the load of "self.sequence_counter += 1".
nsRead(th) ==
    /\ thread[th].pc = "read"
    /\ thread' = [thread EXCEPT ![th] = [pc |-> "write", tmp |-> sequenceCounter]]
    /\ UNCHANGED <<sequenceCounter, adapterCounts, metricsLock, issued,
                   acceptedEvents, rejectedTotal, threadCalls, lastCall>>

\* Stats.next_sequence, the store of "self.sequence_counter += 1".
nsWrite(th) ==
    /\ thread[th].pc = "write"
    /\ sequenceCounter' = next_sequence(thread[th].tmp)
    /\ thread' = [thread EXCEPT ![th].pc = "return"]
    /\ UNCHANGED <<adapterCounts, metricsLock, issued, acceptedEvents,
                   rejectedTotal, threadCalls, lastCall>>

\* "return self.sequence_counter", and the lock is released on the way out.
nsReturn(th) ==
    /\ thread[th].pc = "return"
    /\ issued' = Append(issued, sequenceCounter)
    /\ metricsLock' = IF metricsLock = th THEN 0 ELSE metricsLock
    /\ thread' = [thread EXCEPT ![th] = [pc |-> "idle", tmp |-> 0]]
    /\ UNCHANGED <<sequenceCounter, adapterCounts, acceptedEvents,
                   rejectedTotal, threadCalls, lastCall>>

----------------------------------------------------------------------------
(* Clock *)

\* time.time() advances.
Tick ==
    /\ now < MaxTime
    /\ now' = now + 1

----------------------------------------------------------------------------
(* AlertDeduper *)

\* Strings are sequences of characters.
None == <<"N", "o", "n", "e">>

DigitChar(d) == <<"0", "1", "2", "3", "4", "5", "6", "7", "8", "9">>[d + 1]

RECURSIVE Digits(_)
\* str() of a natural number.
Digits(n) ==
    IF n < 10 THEN <<DigitChar(n)>>
    ELSE Digits(n \div 10) \o <<DigitChar(n % 10)>>

RECURSIVE StripZeros(_)
\* The fraction digits of repr(float): trailing zeros go, one digit stays.
StripZeros(ds) ==
    IF Len(ds) > 1 /\ ds[Len(ds)] = "0"
    THEN StripZeros(SubSeq(ds, 1, Len(ds) - 1))
    ELSE ds

\* A coordinate is absent (None), or a number given in units of 0.00001
\* degrees.  An absent one is all the key function needs to tell apart from
\* a number.
NoCoord == [has |-> FALSE, v |-> 0]
Coord(n) == [has |-> TRUE, v |-> n]

Abs(n) == IF n < 0 THEN 0 - n ELSE n

\* round(float(x), 4): the sign and the magnitude in units of 0.0001 of the
\* nearest multiple; a negative number that rounds to zero is -0.0.
Round4(n) == [neg |-> n < 0, mag |-> (Abs(n) + 5) \div 10]

\* "{lat}" inside the f-string of _key: None for an absent coordinate,
\* repr() of the rounded float otherwise.
FormatCoord(c) ==
    IF ~c.has THEN None
    ELSE LET r == Round4(c.v)
             frac == r.mag % 10000
             padded == <<DigitChar(frac \div 1000), DigitChar((frac \div 100) % 10),
                         DigitChar((frac \div 10) % 10), DigitChar(frac % 10)>>
         IN  (IF r.neg THEN <<"-">> ELSE <<>>) \o Digits(r.mag \div 10000)
                 \o <<".">> \o StripZeros(padded)

\* AlertDeduper._key.
DedupKey(alert) ==
    alert.rule \o <<"|">> \o alert.sensor_id \o <<"|">> \o alert.severity
        \o <<"|">> \o FormatCoord(alert.lat) \o <<",">> \o FormatCoord(alert.lon)

\* The alerts should_send is called with.  No coordinate lies halfway
\* between two multiples of 0.0001, where the rounding of the binary float
\* decides.
DedupAlerts ==
    {a \in [rule : {<<"r">>, <<"r", "|", "s">>},
            sensor_id : {<<"s">>, <<"s", "|", "s">>},
            severity : {<<"w">>},
            lat : {NoCoord, Coord(-3), Coord(3), Coord(4)},
            lon : {Coord(12)}] :
        ~(a.rule = <<"r", "|", "s">> /\ a.sensor_id = <<"s", "|", "s">>)}

InitDedup ==
    /\ seen = << >>
    /\ totalChecked = 0
    /\ totalSuppressed = 0
    /\ dedupLog = <<>>

\* A window that is one tick short.
WithinShortTtl(t, seenTs) == (t - seenTs) < DedupTtl - 1

\* "(now - seen_ts) < self.ttl".
WithinTtl(t, seenTs) == (t - seenTs) < DedupTtl

\* A pruning that keeps nothing but the entry just written.
PruneToNow(m, t) ==
    IF Cardinality(DOMAIN m) > DedupMaxKeys
    THEN [k \in {k \in DOMAIN m : m[k] >= t} |-> m[k]]
    ELSE m

\* The pruning of should_send: when the map holds more than max keys, keep
\* the entries that are not older than now - ttl.
Prune(m, t) ==
    IF Cardinality(DOMAIN m) > DedupMaxKeys
    THEN [k \in {k \in DOMAIN m : m[k] >= t - DedupTtl} |-> m[k]]
    ELSE m

\* A suppression that stores the time of the suppressed call.
RefreshOnSuppress(m, key, t) == [m EXCEPT ![key] = t]

\* "self.total_suppressed += 1; return False": the map is left as it is.
Suppress(m, key, t) == m

\* The outcome of AlertDeduper.should_send(alert) at time t: whether to
\* send, and the map afterwards.
ShouldSend(m, alert, t) ==
    LET key == DedupKey(alert)
    IN  IF key \in DOMAIN m /\ WithinTtl(t, m[key])
        THEN [send |-> FALSE, seen |-> Suppress(m, key, t)]
        ELSE [send |-> TRUE,
              seen |-> Prune([k \in DOMAIN m \cup {key} |->
                                 IF k = key THEN t ELSE m[k]], t)]

\* AlertDeduper.should_send.
should_send(alert) ==
    LET r == ShouldSend(seen, alert, now)
    IN  /\ totalChecked' = totalChecked + 1
        /\ totalSuppressed' = IF r.send THEN totalSuppressed ELSE totalSuppressed + 1
        /\ seen' = r.seen
        /\ dedupLog' = Append(dedupLog, [alert |-> alert, key |-> DedupKey(alert),
                                         t |-> now, send |-> r.send])

----------------------------------------------------------------------------
(* NDJSONRecorder *)

\* An hour file that was never opened.
NoFile == [exists |-> FALSE, mtime |-> 0, lines |-> <<>>]

InitRec(ages) ==
    /\ hour = 0
    /\ subHour = 0
    /\ recMaxAge \in ages
    /\ recQueue = <<>>
    /\ recTask = "none"
    /\ recFh = -1
    /\ recHourKey = -1
    /\ recFiles = [h \in 0..MaxHour |-> NoFile]
    /\ totalWritten = 0
    /\ droppedTotal = 0
    /\ recOffered = <<>>
    /\ recStale = FALSE
    /\ recStopped = "no"
    /\ recHandles = {}
    /\ recWrites = <<>>

\* An hour passes on the wall clock.
HourTick ==
    /\ hour < MaxHour
    /\ hour' = hour + 1

\* A tick, the TicksPerHour-th part of an hour, passes on the wall clock.
ClockTick ==
    /\ hour < MaxHour \/ subHour + 1 < TicksPerHour
    /\ IF subHour + 1 < TicksPerHour
       THEN subHour' = subHour + 1 /\ hour' = hour
       ELSE subHour' = 0 /\ hour' = hour + 1

\* datetime.now(timezone.utc) as the file system and timedelta see it, in
\* ticks.
Stamp == hour * TicksPerHour + subHour

\* NDJSONRecorder.start: create the consumer task.
recStart ==
    /\ recTask = "none"
    /\ recTask' = "running"
    /\ UNCHANGED <<subHour, recMaxAge, recQueue, recFh, recHourKey, recFiles,
                   totalWritten, droppedTotal, recOffered, recStale, recStopped,
                   recHandles, recWrites>>

\* A capacity test that lets one line too many in.
RecQueueOverfull(q) == Len(q) > RecQueueMax

\* asyncio.Queue.full() of the recorder queue, on which put_nowait raises
\* QueueFull.
RecQueueFull(q) == Len(q) >= RecQueueMax

\* An enqueue that puts the line in front of the queued ones.
EnqueueFront(q, dropped, line) ==
    IF RecQueueFull(q)
    THEN [queue |-> q, dropped |-> dropped + 1, queued |-> FALSE]
    ELSE [queue |-> <<line>> \o q, dropped |-> dropped, queued |-> TRUE]

\* The effect of NDJSONRecorder.enqueue(line) on the queue and the drop
\* counter: put_nowait, or count the drop.
Enqueue(q, dropped, line) ==
    IF RecQueueFull(q)
    THEN [queue |-> q, dropped |-> dropped + 1, queued |-> FALSE]
    ELSE [queue |-> Append(q, line), dropped |-> dropped, queued |-> TRUE]

\* NDJSONRecorder.enqueue up to its return or its "await asyncio.sleep(0)".
enqueue(line) ==
    LET r == Enqueue(recQueue, droppedTotal, line)
    IN  /\ recQueue' = r.queue
        /\ droppedTotal' = r.dropped
        /\ recOffered' = Append(recOffered, [line |-> line, queued |-> r.queued])
        /\ UNCHANGED <<subHour, recMaxAge, recTask, recFh, recHourKey, recFiles,
                       totalWritten, recStale, recStopped, recHandles, recWrites>>

\* A recorder that opens a file only when it holds none.
NoRotation == recFh = -1

\* _rollover_if_needed has to open a file.
NeedsOpen == hour # recHourKey \/ recFh = -1

\* _rollover_if_needed: "if self._fh: flush, close" before the open.
CloseHandle(handles, fh) == handles \ {fh}

\* A prune that also removes the files last modified at now - max_age.
PruneAtCutoff(files) ==
    IF recMaxAge = 0 THEN files
    ELSE [h \in DOMAIN files |->
             IF files[h].exists /\ files[h].mtime <= Stamp - recMaxAge
             THEN [files[h] EXCEPT !.exists = FALSE]
             ELSE files[h]]

\* _prune_old_files: unlink the files last modified before now - max_age.
PruneOldFiles(files) ==
    IF recMaxAge = 0 THEN files
    ELSE [h \in DOMAIN files |->
             IF files[h].exists /\ files[h].mtime < Stamp - recMaxAge
             THEN [files[h] EXCEPT !.exists = FALSE]
             ELSE files[h]]

\* path.open("a"): the file exists afterwards; a file that was unlinked
\* starts empty.
OpenAppend(files) ==
    IF files[hour].exists THEN files
    ELSE [files EXCEPT ![hour] = [exists |-> TRUE, mtime |-> Stamp, lines |-> <<>>]]

\* One iteration of _run: take a line, roll over, prune, write.  The
\* flush or close of the old file in _rollover_if_needed may raise, which
\* ends the task with _fh and _hour_key as they were; the open may raise,
\* which ends the task with _fh still referring to the handle closed just
\* before; a write that raises is swallowed by "except Exception: pass".
recRun(outcome) ==
    /\ recTask = "running"
    /\ recQueue # <<>>
    /\ outcome = "open_error" => NeedsOpen
    /\ outcome = "close_error" => NeedsOpen /\ recFh # -1
    /\ recQueue' = Tail(recQueue)
    /\ recHourKey' = IF outcome = "close_error" THEN recHourKey ELSE hour
    /\ IF outcome = "close_error"
       THEN /\ recTask' = "dead"
            /\ UNCHANGED <<recFh, recStale, recHandles, recFiles, totalWritten,
                           recWrites>>
       ELSE IF outcome = "open_error"
       THEN /\ recTask' = "dead"
            /\ recFh' = -1
            /\ recStale' = (recFh # -1)
            /\ recHandles' = CloseHandle(recHandles, recFh)
            /\ UNCHANGED <<recFiles, totalWritten, recWrites>>
       ELSE LET opened == IF NeedsOpen THEN OpenAppend(recFiles) ELSE recFiles
                pruned == PruneOldFiles(opened)
                fh == IF NeedsOpen THEN hour ELSE recFh
            IN  /\ recFh' = fh
                /\ recHandles' = IF NeedsOpen
                                 THEN CloseHandle(recHandles, recFh) \cup {hour}
                                 ELSE recHandles
                /\ recStale' = FALSE
                /\ recTask' = recTask
                /\ IF outcome = "ok"
                   THEN /\ recFiles' = [pruned EXCEPT
                              ![fh].lines = Append(@, Head(recQueue)),
                              ![fh].mtime = Stamp]
                        /\ totalWritten' = totalWritten + 1
                        /\ recWrites' = Append(recWrites,
                              [line |-> Head(recQueue), hour |-> hour, file |-> fh])
                   ELSE /\ recFiles' = pruned
                        /\ UNCHANGED <<totalWritten, recWrites>>
    /\ UNCHANGED <<subHour, recMaxAge, droppedTotal, recOffered, recStopped>>

\* stop(): "await self._task" inside "except Exception: pass".  Awaiting
\* the task just cancelled raises CancelledError, a BaseException, which
\* the clause does not catch; the OSError of a task that died is caught.
AwaitRaises(state) == state = "running"

\* NDJSONRecorder.stop, once, after start: cancel the consumer task, which
\* waits at queue.get, and await it; if the await raised nothing that
\* escapes, flush and close the handle _fh refers to and set it to None.
\* Flushing a handle that is closed already raises ValueError.
recStop ==
    /\ recTask \in {"running", "dead"}
    /\ recStopped = "no"
    /\ recTask' = IF recTask = "running" THEN "cancelled" ELSE recTask
    /\ IF AwaitRaises(recTask)
       THEN /\ recStopped' = "CancelledError"
            /\ UNCHANGED <<recFh, recStale, recHandles>>
       ELSE IF recStale
            THEN /\ recStopped' = "ValueError"
                 /\ UNCHANGED <<recFh, recStale, recHandles>>
            ELSE /\ recStopped' = "returned"
                 /\ recFh' = -1
                 /\ recHandles' = CloseHandle(recHandles, recFh)
                 /\ UNCHANGED recStale
    /\ UNCHANGED <<subHour, recMaxAge, recQueue, recHourKey, recFiles, totalWritten,
                   droppedTotal, recOffered, recWrites>>

----------------------------------------------------------------------------
(* ingest_payload, dispatch_zmeta and publish_alerts *)

NoIngest == [ev |-> 0, msg |-> NoMsg, alerts |-> <<>>]

InitPipe ==
    /\ ingest = [t \in Tasks |-> NoIngest]
    /\ validatedTotal = 0
    /\ alertsTotal = 0
    /\ dispatched = {}
    /\ pipeLog = <<>>

\* The payloads of SpecPipe: valid without a sequence, valid with one, and
\* invalid with no adapter.
PipePayloads ==
    {p \in Payloads : p.matches = {} /\ (p.native => p.seq = 0) /\ (~p.native => ~p.hasSeq)}

\* The payloads of SpecS1: data of type "frequency" in MHz, source_format
\* "simulated_json_v1", no sequence, and timestamp, modality and location
\* as the schema wants them; the payload satisfies the schema if it has a
\* sensor_id too, and is left to the RF adapter (which supplies "sim_rf")
\* if it has none.
S1Payloads ==
    {p \in Payloads : /\ p.mhz # NoValue
                      /\ p.matches = {"simulated_v1_rf"}
                      /\ p.adaptedOk /\ ~p.hasSeq /\ ~p.badType}

\* What rules.apply(data_dict) does: it raises, or returns the alerts of
\* the rules that fired.  One rule is loaded, and the events come from one
\* sensor at one place.
RuleAlert(name) ==
    [rule |-> name, sensor_id |-> <<"s">>, severity |-> <<"w">>,
     lat |-> Coord(3), lon |-> Coord(12)]

RulesOutcomes ==
    {[raised |-> TRUE, alerts |-> <<>>]} \cup
    [raised : {FALSE},
     alerts : {<<>>, <<RuleAlert(<<"r">>)>>}]

\* The results of rules.apply under SpecAcct: up to two alerts, of one rule
\* name (two rules named alike) or of two.
AcctOutcomes ==
    RulesOutcomes \cup
    [raised : {FALSE},
     alerts : {<<RuleAlert(<<"r">>), RuleAlert(<<"r">>)>>,
               <<RuleAlert(<<"r">>), RuleAlert(<<"r", "|", "s">>)>>}]

\* A dispatch that goes from the event broadcast straight to the rules.
SkipRecorder == "rules"

\* dispatch_zmeta: where the task goes on when the broadcast of the event
\* returns.
AfterEventBroadcast == "enqueue"

\* ingest_payload(payload) up to the first suspension: validate_or_adapt,
\* which raises for an invalid payload, then dispatch_zmeta's call of
\* hub.broadcast_text(data_json).
pipeIngest(t, p) ==
    LET r == ValidateOrAdapt(p, sequenceCounter)
        n == Len(acceptedEvents) + 1
        m == EventMsg(n, r.event.seq)
    IN  /\ task[t].pc = "idle"
        /\ \A other \in Tasks : other < t => task[other].pc # "idle"
        /\ validate_or_adapt(p)
        /\ IF r.ok
           THEN /\ CallBroadcast(t, m, AfterEventBroadcast)
                /\ ingest' = [ingest EXCEPT ![t] = [ev |-> n, msg |-> m, alerts |-> <<>>]]
                /\ pipeLog' = Append(pipeLog, [op |-> "broadcast", ev |-> n, msg |-> m,
                                               call |-> Len(calls) + 1, ws |-> 0])
           ELSE UNCHANGED <<task, calls, returned, ingest, pipeLog>>
        /\ UNCHANGED <<hubCfg, lastDisconnect, clients, queues, dropCounts, sender, inflight, route,
                       closed, wsSentTotal, wsDroppedTotal, acceptedLog, sentLog,
                       consec, evictedBy, now, dedupVars, hour, recVars,
                       validatedTotal, alertsTotal, dispatched>>

\* dispatch_zmeta: "await svc.recorder.enqueue(data_json)".
pipeEnqueue(t) ==
    /\ task[t].pc = "enqueue"
    /\ enqueue(ingest[t].msg)
    /\ task' = [task EXCEPT ![t].pc = "rules"]
    /\ pipeLog' = Append(pipeLog, [op |-> "enqueue", ev |-> ingest[t].ev,
                                   msg |-> ingest[t].msg, call |-> 0, ws |-> 0])
    /\ UNCHANGED <<hubCfg, lastDisconnect, clients, queues, dropCounts, sender, inflight, route,
                   closed, wsSentTotal, wsDroppedTotal, calls, returned, acceptedLog,
                   sentLog, consec, evictedBy, seqVars, now, dedupVars, hour,
                   ingest, validatedTotal, alertsTotal, dispatched>>

\* The task is back in its caller.
EndDispatch(t) ==
    /\ task' = [task EXCEPT ![t] = IdleTask]
    /\ ingest' = [ingest EXCEPT ![t] = NoIngest]
    /\ dispatched' = dispatched \cup {ingest[t].ev}

\* An exception leaves ingest_payload: the task is back in its caller
\* without a result.
FailDispatch(t) ==
    /\ task' = [task EXCEPT ![t] = IdleTask]
    /\ ingest' = [ingest EXCEPT ![t] = NoIngest]
    /\ UNCHANGED dispatched

\* An entry of the dispatch log that is no call.
Note(op, t) ==
    [op |-> op, ev |-> ingest[t].ev, msg |-> ingest[t].msg, call |-> 0, ws |-> 0]

\* A dispatch without the try around rules.apply.
RulesErrorEscapes == FALSE

\* dispatch_zmeta: "except Exception" catches what rules.apply raises.
RulesErrorCaught == TRUE

\* dispatch_zmeta: note_validated, then rules.apply, which returns alerts or
\* raises; an exception is logged and ends the dispatch.
pipeRules(t, outcome) ==
    /\ task[t].pc = "rules"
    /\ validatedTotal' = validatedTotal + 1
    /\ IF outcome.raised
       THEN IF RulesErrorCaught
            THEN /\ EndDispatch(t)
                 /\ pipeLog' = pipeLog \o <<Note("validated", t), Note("rules_raised", t)>>
            ELSE /\ FailDispatch(t)
                 /\ pipeLog' = pipeLog \o <<Note("validated", t), Note("rules_raised", t),
                                            Note("failed", t)>>
       ELSE /\ task' = [task EXCEPT ![t].pc = "publish"]
            /\ ingest' = [ingest EXCEPT ![t].alerts = outcome.alerts]
            /\ pipeLog' = pipeLog \o <<Note("validated", t)>>
                              \o [i \in DOMAIN outcome.alerts |-> Note("rule_alert", t)]
            /\ UNCHANGED dispatched
    /\ UNCHANGED <<hubCfg, lastDisconnect, clients, queues, dropCounts, sender, inflight, route,
                   closed, wsSentTotal, wsDroppedTotal, calls, returned, acceptedLog,
                   sentLog, consec, evictedBy, seqVars, now, dedupVars, hour,
                   recVars, alertsTotal>>

\* publish_alerts: the loop takes the next alert, asks the deduper and
\* broadcasts the alert if it may be sent; after the last alert the dispatch
\* returns.
pipePublish(t) ==
    /\ task[t].pc = "publish"
    /\ IF ingest[t].alerts = <<>>
       THEN /\ EndDispatch(t)
            /\ UNCHANGED <<calls, returned, dedupVars, pipeLog>>
       ELSE LET alert == Head(ingest[t].alerts)
                m == AlertMsg(ingest[t].ev, alert)
            IN  /\ should_send(alert)
                /\ ingest' = [ingest EXCEPT ![t].alerts = Tail(@)]
                /\ IF ShouldSend(seen, alert, now).send
                   THEN /\ CallBroadcast(t, m, "noted")
                        /\ pipeLog' = Append(pipeLog,
                              [op |-> "alert", ev |-> ingest[t].ev, msg |-> m,
                               call |-> Len(calls) + 1, ws |-> 0])
                   ELSE /\ pipeLog' = Append(pipeLog, Note("suppressed", t))
                        /\ UNCHANGED <<task, calls, returned>>
                /\ UNCHANGED dispatched
    /\ UNCHANGED <<hubCfg, lastDisconnect, clients, queues, dropCounts, sender, inflight, route,
                   closed, wsSentTotal, wsDroppedTotal, acceptedLog, sentLog,
                   consec, evictedBy, seqVars, now, hour, recVars,
                   validatedTotal, alertsTotal>>

\* A counter that counts every alert twice.
NoteAlertTwice(total) == total + 2

\* Stats.note_alert: "self.alerts_total += 1".
note_alert(total) == total + 1

\* publish_alerts: note_alert after the broadcast of an alert returned.
pipeNoteAlert(t) ==
    /\ task[t].pc = "noted"
    /\ alertsTotal' = note_alert(alertsTotal)
    /\ task' = [task EXCEPT ![t].pc = "publish"]
    /\ pipeLog' = Append(pipeLog, Note("noted", t))
    /\ UNCHANGED <<hubCfg, lastDisconnect, clients, queues, dropCounts, sender, inflight, route,
                   closed, wsSentTotal, wsDroppedTotal, calls, returned, acceptedLog,
                   sentLog, consec, evictedBy, seqVars, now, dedupVars, hour,
                   recVars, ingest, validatedTotal, dispatched>>

\* The task is cancelled while it waits inside broadcast_text (the UDP
\* consumer at shutdown): the dispatch goes no further.
pipeCancel(t) ==
    /\ task[t].pc \in {"put", "blocked"}
    /\ task' = [task EXCEPT ![t] = [IdleTask EXCEPT !.pc = "cancelled"]]
    /\ ingest' = [ingest EXCEPT ![t] = NoIngest]
    /\ pipeLog' = Append(pipeLog, Note("cancelled", t))
    /\ UNCHANGED <<hubCfg, lastDisconnect, clients, queues, dropCounts, sender, inflight, route,
                   closed, wsSentTotal, wsDroppedTotal, calls, returned, acceptedLog,
                   sentLog, consec, evictedBy, seqVars, now, dedupVars, hour,
                   recVars, validatedTotal, alertsTotal, dispatched>>

\* A broadcast_text whose "except Exception" clause returns to the caller.
ReturnOnPutError(tk) ==
    [IdleTask EXCEPT !.pc = tk.ret, !.ret = "idle",
                     !.msg = IF tk.ret = "idle" THEN NoMsg ELSE tk.msg]

\* broadcast_text: after the "except Exception" clause the for loop goes on
\* with the next subscriber of the snapshot.
AfterPutError(tk) == Advance(tk)

\* broadcast_text: the put to a subscriber raises something that is neither
\* a timeout nor a cancellation; note_ws_dropped, the error is logged, and
\* the whole of disconnect(ws): pop the registry entry and the drop counter,
\* cancel the sender, close the socket.
bcPutError(t) ==
    LET ws == Head(task[t].snap)
    IN  /\ task[t].pc \in {"put", "blocked"}
        /\ wsDroppedTotal' = wsDroppedTotal + 1
        /\ dropCounts' = [dropCounts EXCEPT ![ws] = 0]
        /\ IF Registered(ws)
           THEN /\ clients' = RemoveElem(clients, ws)
                /\ sender' = [sender EXCEPT ![ws] = Cancelled(ws, clients')]
                /\ inflight' = [inflight EXCEPT ![ws] = NoMsg]
                /\ closed' = [closed EXCEPT ![ws] = @ + 1]
                /\ evictedBy' = [evictedBy EXCEPT ![ws] = "error"]
           ELSE UNCHANGED <<clients, sender, inflight, closed, evictedBy>>
        /\ task' = [task EXCEPT ![t] = AfterPutError(@)]
        /\ returned' = IF task'[t].pc = "put" THEN returned
                       ELSE returned \cup {task[t].call}
        /\ pipeLog' = Append(pipeLog,
              [op |-> "put_error", ev |-> ingest[t].ev, msg |-> task[t].msg,
               call |-> task[t].call, ws |-> ws])
        /\ UNCHANGED <<hubCfg, lastDisconnect, queues, route, wsSentTotal, calls, acceptedLog,
                       sentLog, consec, ingest, validatedTotal, alertsTotal,
                       dispatched>>

----------------------------------------------------------------------------
(* Rule engine *)

\* Rule names; an item without a name is loaded as "unnamed".
RuleNames == {"unnamed", "r"}

\* An item of the YAML list: name, enabled flag, cooldown_seconds (0 stands
\* for an absent or zero cooldown, which "if r.cooldown_seconds" skips), the
\* "any" flag and the number of its conditions.
YamlItems ==
    [name : RuleNames, enabled : BOOLEAN, cooldown : {0, RuleCooldown},
     any : BOOLEAN, conds : 0..MaxConds]

RECURSIVE SeqsUpTo(_, _)
SeqsUpTo(S, n) ==
    IF n = 0 THEN {<<>>}
    ELSE LET shorter == SeqsUpTo(S, n - 1)
         IN  shorter \cup {Append(q, x) : q \in shorter, x \in S}

\* The rule files of SpecRules: rules of one condition, combined with AND.
RuleFiles == SeqsUpTo({it \in YamlItems : ~it.any /\ it.conds = 1}, MaxRules)

\* The rule files of SpecMatch: enabled rules without cooldown, with any
\* number of conditions and either way of combining them.
MatchFiles ==
    SeqsUpTo({it \in YamlItems : it.enabled /\ it.cooldown = 0 /\ it.name = "r"},
             MaxRules)

\* RuleSet.from_yaml: the items in file order, those with a false enabled
\* flag left out; item is the position of the rule's item in the file.
RECURSIVE FromYaml(_, _)
FromYaml(items, k) ==
    IF k > Len(items) THEN <<>>
    ELSE IF items[k].enabled
         THEN <<[name |-> items[k].name, cooldown |-> items[k].cooldown,
                 any_match |-> items[k].any, conditions |-> items[k].conds,
                 item |-> k]>>
              \o FromYaml(items, k + 1)
         ELSE FromYaml(items, k + 1)

from_yaml(items) == FromYaml(items, 1)

\* Rules.load on a file: a fresh RuleSet.
InitRules(files) ==
    /\ ruleFile \in files
    /\ ruleSet = from_yaml(ruleFile)
    /\ lastFired = [n \in RuleNames |-> -1]
    /\ fireCounts = [n \in RuleNames |-> 0]
    /\ evalLog = <<>>

\* eval: "last is not None and (now - last) < float(r.cooldown_seconds)".
InCooldown(last, t, c) == last # -1 /\ (t - last) < c

\* eval, the body of the loop for rule i, which matches the event iff it is
\* in matched: the cooldown test on _last_fired[r.name], then the alert.
EvalRule(i, matched, t, st) ==
    LET r == ruleSet[i]
    IN  IF i \notin matched THEN st
        ELSE IF r.cooldown # 0 /\ InCooldown(st.last[r.name], t, r.cooldown) THEN st
        ELSE [last |-> IF r.cooldown # 0 THEN [st.last EXCEPT ![r.name] = t]
                       ELSE st.last,
              counts |-> [st.counts EXCEPT ![r.name] = @ + 1],
              alerts |-> Append(st.alerts, i)]

\* eval, the loop over self.rules from rule i on.
RECURSIVE EvalFrom(_, _, _, _)
EvalFrom(i, matched, t, st) ==
    IF i > Len(ruleSet) THEN st
    ELSE EvalFrom(i + 1, matched, t, EvalRule(i, matched, t, st))

\* What an event is to the rule set: for every rule the list of the
\* results _cond_ok gives for the rule's conditions, in order.
EventResults ==
    {results \in [DOMAIN ruleSet -> SeqsUpTo(BOOLEAN, MaxConds)] :
        \A i \in DOMAIN ruleSet : Len(results[i]) = ruleSet[i].conditions}

\* A combination that wants at least one condition to hold.
SomeAndAll(any_match, results) ==
    /\ results # <<>>
    /\ IF any_match THEN \E c \in DOMAIN results : results[c]
       ELSE \A c \in DOMAIN results : results[c]

\* eval: "ok = any(results) if r.any_match else all(results)".
Ok(any_match, results) ==
    IF any_match THEN \E c \in DOMAIN results : results[c]
    ELSE \A c \in DOMAIN results : results[c]

\* RuleSet.eval(z) for an event with the given condition results.
eval(results) ==
    LET matched == {i \in DOMAIN ruleSet : Ok(ruleSet[i].any_match, results[i])}
        st == EvalFrom(1, matched, now,
                       [last |-> lastFired, counts |-> fireCounts, alerts |-> <<>>])
    IN  /\ lastFired' = st.last
        /\ fireCounts' = st.counts
        /\ evalLog' = Append(evalLog,
              [time |-> now, results |-> results, matched |-> matched,
               alerts |-> st.alerts,
               lastBefore |-> lastFired, lastAfter |-> st.last, load |-> FALSE])
        /\ UNCHANGED <<ruleFile, ruleSet>>

\* A reload that carries the fire counts of the old rule set over.
CarriedCounter(counts) == counts

\* RuleSet.__init__: "self.fire_counts = Counter()", whatever the counts of
\* the rule set it replaces.
FreshCounter(counts) == [n \in RuleNames |-> 0]

\* Rules.load() when the file holds the given items (a missing file is the
\* empty list): self.set becomes a new RuleSet, whose _last_fired and
\* fire_counts are empty.
load(items) ==
    /\ ruleFile' = items
    /\ ruleSet' = from_yaml(items)
    /\ lastFired' = [n \in RuleNames |-> -1]
    /\ fireCounts' = FreshCounter(fireCounts)
    /\ evalLog' = Append(evalLog,
          [time |-> now, results |-> <<>>, matched |-> {}, alerts |-> <<>>,
           lastBefore |-> lastFired, lastAfter |-> [n \in RuleNames |-> -1],
           load |-> TRUE])

----------------------------------------------------------------------------
(* POST /ingest and the UDP edge *)

\* A datagram: its bytes are whitespace or undecodable bytes (pad) around
\* a body, which is nothing, text that is no JSON, or the JSON text of a
\* payload.
NoBody == [json |-> FALSE, text |-> FALSE]

NotJson == [json |-> FALSE, text |-> TRUE]

JsonOf(p) == [json |-> TRUE, text |-> TRUE, payload |-> p]

\* The payloads of SpecUdp: a valid event without a sequence, an invalid
\* payload no adapter takes, and one on which the adapter raises.
UdpPayloads == {p \in PipePayloads : ~p.hasSeq}

Datagrams ==
    {d \in [pad : BOOLEAN, body : {NoBody, NotJson} \cup {JsonOf(p) : p \in UdpPayloads}] :
        d.pad => d.body = NoBody}

NoDatagram == [pad |-> FALSE, body |-> NoBody]

\* The datagram has no bytes at all.
ZeroLength(d) == ~d.pad /\ d.body = NoBody

\* data.decode("utf-8", errors="ignore").strip(): undecodable bytes and the
\* whitespace around the body are gone.
DecodeStrip(d) == d.body

\* "if text:" is false for the empty string.
Truthy(text) == text.text

\* No request has come to the secret check.
NoRequest ==
    [n |-> 0, posts |-> 0, kind |-> "none", id |-> 0, header |-> "", query |-> "",
     code |-> 0]

InitEdge(secrets) ==
    /\ sharedSecret \in secrets
    /\ lastAuth = NoRequest
    /\ udpQueue = <<>>
    /\ udpReceived = 0
    /\ statsDropped = 0
    /\ udpDone = 0
    /\ udpTaken = 0
    /\ udpTask = "waiting"
    /\ lastDatagram = NoDatagram
    /\ httpLog = <<>>

\* A caller that counts no drop for a ValidationError.
NoteDroppedNever(context) == FALSE

\* The caller of ingest_payload calls note_dropped for a ValidationError:
\* udp_consumer does, the HTTP route answers 422 and counts nothing.
NoteDroppedOnReject(context) == context = "udp"

\* The response of POST /ingest to an exception of ingest_payload: the
\* route turns ValidationError into 422, any other is the framework's 500.
ErrorStatus(error) == IF error = "ValidationError" THEN 422 ELSE 500

\* POST /ingest past the secret check, up to the first suspension of
\* ingest_payload.
httpIngest(t, p) ==
    /\ pipeIngest(t, p)
    /\ IF ValidateOrAdapt(p, sequenceCounter).ok
       THEN UNCHANGED <<httpLog, statsDropped>>
       ELSE /\ httpLog' = Append(httpLog,
                  [status |-> ErrorStatus(ValidateOrAdapt(p, sequenceCounter).error),
                   ev |-> 0])
            /\ statsDropped' = IF NoteDroppedOnReject("http") THEN statsDropped + 1
                               ELSE statsDropped
    /\ UNCHANGED udpVars

\* POST /ingest: when ingest_payload returns the route answers 200; an
\* exception that leaves it becomes the response 500.
httpReturn(t) ==
    /\ httpLog' =
          IF dispatched' # dispatched
          THEN Append(httpLog, [status |-> 200, ev |-> ingest[t].ev])
          ELSE IF task'[t].pc = "idle"
               THEN Append(httpLog, [status |-> ErrorStatus("Exception"),
                                     ev |-> ingest[t].ev])
               ELSE httpLog
    /\ UNCHANGED <<udpVars, statsDropped, authVars>>

\* The secrets a configuration or a request may carry; "" is no secret: an
\* unset SHARED_SECRET, an absent or empty header, an absent or empty
\* "secret" query parameter.
Secrets == {"", "s", "x"}

\* Settings.auth_enabled: "bool(self.shared_secret)".
auth_enabled == sharedSecret # ""

\* A verifier that lets every secret pass.
VerifyAny(provided) == TRUE

\* Settings.verify_shared_secret.
verify_shared_secret(provided) ==
    IF ~auth_enabled THEN TRUE ELSE provided = sharedSecret

\* "headers.get(auth_header) or query_params.get('secret')".
Provided(header, query) == IF header # "" THEN header ELSE query

\* The route refuses the request.
Unauthorized(header, query) ==
    auth_enabled /\ ~verify_shared_secret(Provided(header, query))

\* websocket_endpoint up to its first receive: a request that fails the
\* secret check is closed with code 4401 and the handler returns; any other
\* goes to hub.connect.
websocket_endpoint(ws, header, query) ==
    /\ route[ws] = "new"
    /\ \A other \in Sockets : other < ws => route[other] # "new"
    /\ lastAuth' = [n |-> lastAuth.n + 1, posts |-> lastAuth.posts, kind |-> "ws",
                    id |-> ws, header |-> header, query |-> query,
                    code |-> IF Unauthorized(header, query) THEN 4401 ELSE 0]
    /\ IF Unauthorized(header, query)
       THEN /\ route' = [route EXCEPT ![ws] = "refused"]
            /\ closed' = [closed EXCEPT ![ws] = @ + 1]
            /\ UNCHANGED <<hubCfg, lastDisconnect, clients, queues, dropCounts, sender, inflight,
                           wsSentTotal, wsDroppedTotal, task, calls, returned,
                           acceptedLog, sentLog, consec, evictedBy>>
       ELSE connect(ws)
    /\ UNCHANGED <<seqVars, now, dedupVars, hour, recVars, pipeVars, udpVars,
                   statsDropped, httpLog, sharedSecret, ruleVars>>

\* POST /ingest: a request that fails the secret check is answered 401
\* before ingest_payload is called; any other goes on to ingest_payload.
postIngest(t, p, header, query) ==
    IF Unauthorized(header, query)
    THEN /\ task[t].pc = "idle"
         /\ httpLog' = Append(httpLog, [status |-> 401, ev |-> 0])
         /\ lastAuth' = [n |-> lastAuth.n + 1, posts |-> lastAuth.posts + 1,
                         kind |-> "post", id |-> t, header |-> header,
                         query |-> query, code |-> 401]
         /\ UNCHANGED <<hubVars, seqVars, now, dedupVars, hour, recVars, pipeVars,
                        udpVars, statsDropped, sharedSecret>>
    ELSE /\ httpIngest(t, p)
         /\ lastAuth' = [n |-> lastAuth.n + 1, posts |-> lastAuth.posts + 1,
                         kind |-> "post", id |-> t, header |-> header,
                         query |-> query, code |-> 0]
         /\ UNCHANGED sharedSecret

\* A handoff queue that takes one item more than its maxsize.
UdpQueueOverfull(q) == Len(q) > UdpQueueMax

\* asyncio.Queue.full() for the handoff queue, built with
\* maxsize = UDP_QUEUE_MAX >= 1.
UdpQueueFull(q) == Len(q) >= UdpQueueMax

\* UDPProtocol.datagram_received: note_received; the stripped text, if there
\* is any, goes to the handoff queue with put_nowait, and QueueFull counts
\* a drop.
datagram_received(d) ==
    LET text == DecodeStrip(d)
    IN  /\ udpReceived' = udpReceived + 1
        /\ lastDatagram' = d
        /\ IF ~Truthy(text)
           THEN UNCHANGED <<udpQueue, statsDropped>>
           ELSE IF UdpQueueFull(udpQueue)
                THEN /\ statsDropped' = statsDropped + 1
                     /\ UNCHANGED udpQueue
                ELSE /\ udpQueue' = Append(udpQueue, text)
                     /\ UNCHANGED statsDropped
        /\ UNCHANGED <<udpDone, udpTaken, udpTask, httpLog, authVars>>

\* A consumer whose inner try catches the validation error only.
CatchesValidationOnly(error) == error = "ValidationError"

\* udp_consumer: "except ValidationError" and "except Exception" inside the
\* loop catch whatever json.loads and ingest_payload raise.
ConsumerCatches(error) == TRUE

\* udp_consumer takes the next item: json.loads, then ingest_payload up to
\* its first suspension.  An item that is no JSON, and a payload that
\* ingest_payload rejects, count a drop; the finally clause calls
\* task_done and the loop goes on.
udpGet(t) ==
    LET raw == Head(udpQueue)
        r == ValidateOrAdapt(raw.payload, sequenceCounter)
        error == IF ~raw.json THEN "JSONDecodeError" ELSE r.error
    IN  /\ udpTask = "waiting"
        /\ udpQueue # <<>>
        /\ udpQueue' = Tail(udpQueue)
        /\ udpTaken' = udpTaken + 1
        /\ IF raw.json
           THEN pipeIngest(t, raw.payload)
           ELSE UNCHANGED <<hubVars, seqVars, now, dedupVars, hour, recVars, pipeVars>>
        /\ IF error = "none"
           THEN /\ udpTask' = IF task'[t].pc = "idle" THEN "waiting" ELSE "busy"
                /\ udpDone' = IF task'[t].pc = "idle" THEN udpDone + 1 ELSE udpDone
                /\ UNCHANGED statsDropped
           ELSE /\ udpDone' = udpDone + 1
                /\ IF ConsumerCatches(error)
                   THEN /\ statsDropped' =
                             IF error = "ValidationError" /\ ~NoteDroppedOnReject("udp")
                             THEN statsDropped ELSE statsDropped + 1
                        /\ UNCHANGED udpTask
                   ELSE /\ udpTask' = "crashed"
                        /\ UNCHANGED statsDropped
        /\ UNCHANGED <<udpReceived, lastDatagram, httpLog, authVars>>

\* udp_consumer: ingest_payload returned; task_done, and back to queue.get.
udpReturn(t) ==
    /\ IF task'[t].pc = "idle"
       THEN /\ udpDone' = udpDone + 1
            /\ udpTask' = "waiting"
       ELSE UNCHANGED <<udpDone, udpTask>>
    /\ UNCHANGED <<udpQueue, udpReceived, udpTaken, lastDatagram, statsDropped, httpLog,
                   authVars>>

\* app_lifespan cancels the consumer: at queue.get the loop ends; inside
\* broadcast_text the CancelledError passes the inner handlers, the finally
\* clause calls task_done, and "except asyncio.CancelledError: pass" ends
\* the task.
udpCancel(t) ==
    /\ \/ /\ udpTask = "waiting"
          /\ UNCHANGED <<udpDone, hubVars, seqVars, now, dedupVars, hour, recVars,
                         pipeVars>>
       \/ /\ udpTask = "busy"
          /\ pipeCancel(t)
          /\ udpDone' = udpDone + 1
    /\ udpTask' = "cancelled"
    /\ UNCHANGED <<udpQueue, udpReceived, udpTaken, lastDatagram, statsDropped, httpLog,
                   authVars>>

----------------------------------------------------------------------------
(* Specifications *)

InitRest(ages) ==
    /\ InitSeq /\ now = 0 /\ InitDedup /\ InitRec(ages) /\ InitPipe /\ InitEdge({""})
    /\ InitRules({<<>>})

\* Any rule file within the bounds.
InitAnyRules ==
    /\ InitHub({1}, {1})
    /\ InitSeq /\ now = 0 /\ InitDedup /\ InitRec({0}) /\ InitPipe /\ InitEdge({""})
    /\ InitRules(RuleFiles)

\* A hub of any configuration within the bounds.
InitAll == InitHub(1..MaxWsQueue, 1..MaxRetries) /\ InitRest({0})

\* The hub as test_backpressure_disconnects_slow_client configures it.
InitOneHub == InitHub({1}, {1}) /\ InitRest({0})

\* The recorder with or without retention.
InitAnyAge ==
    InitHub({1}, {1}) /\ InitRest({h * TicksPerHour : h \in 0..MaxAgeHours})

\* The sockets' routes and senders, and the broadcasts under way.
HubCore(socks, tasks) ==
    \/ \E ws \in socks : connect(ws)
    \/ \E ws \in socks : disconnect(ws)
    \/ \E ws \in socks : senderGet(ws)
    \/ \E ws \in socks : senderSendOk(ws)
    \/ \E ws \in socks : senderSendFail(ws)
    \/ \E t \in tasks : bcPutOk(t)
    \/ \E t \in tasks : bcBlock(t)
    \/ \E t \in tasks : bcTimeout(t)

HubActions(socks, tasks, limit) ==
    \/ HubCore(socks, tasks)
    \/ \E t \in tasks : broadcast_text(t, limit)

\* The hub with one subscriber and overlapping broadcasts.
NextHub == HubActions(1..HubSockets, Tasks, HubBroadcasts) /\ UNCHANGED restVars

SpecHub == InitAll /\ [][NextHub]_vars

\* The hub with one subscriber that connects, a socket that never does, and
\* callers that disconnect either of them at any time.
NextDisc ==
    /\ \/ HubActions(1..HubSockets, 1..FanTasks, DiscBroadcasts)
       \/ \E ws \in 1..NumSockets, close \in CloseOutcomes : disconnectCall(ws, close)
    /\ UNCHANGED restVars

SpecDisc == InitAll /\ [][NextDisc]_vars

\* The hub fanning out to several subscribers.
NextFan == HubActions(Sockets, 1..FanTasks, FanBroadcasts) /\ UNCHANGED restVars

SpecFan == InitAll /\ [][NextFan]_vars

\* Ingest calls on the event loop, and threads that draw sequence numbers.
NextSeq ==
    /\ \/ \E p \in SeqPayloads : validate_or_adapt(p)
       \/ \E th \in Threads : nsAcquire(th)
       \/ \E th \in Threads : nsRead(th)
       \/ \E th \in Threads : nsWrite(th)
       \/ \E th \in Threads : nsReturn(th)
    /\ UNCHANGED <<hubVars, now, dedupVars, hour, recVars, pipeVars, edgeVars, ruleVars>>

SpecSeq == InitOneHub /\ [][NextSeq]_vars

\* The payloads of SpecAdapt: of every shape, valid or not, with up to two
\* adapters that take them.
AdaptPayloads == {p \in Payloads : p.mhz = NoValue /\ p.seq <= 0}

\* Payloads of every shape handed to validate_or_adapt.
NextAdapt ==
    /\ \E p \in AdaptPayloads : validate_or_adapt(p)
    /\ UNCHANGED <<hubVars, now, dedupVars, hour, recVars, pipeVars, edgeVars, ruleVars>>

SpecAdapt == InitOneHub /\ [][NextAdapt]_vars

\* Alerts offered to the deduper while time passes.
NextDedup ==
    /\ \/ /\ totalChecked < MaxDedupCalls
          /\ \E alert \in DedupAlerts : should_send(alert)
          /\ UNCHANGED now
       \/ Tick /\ UNCHANGED dedupVars
    /\ UNCHANGED <<hubVars, seqVars, hour, recVars, pipeVars, edgeVars, ruleVars>>

SpecDedup == InitOneHub /\ [][NextDedup]_vars

\* What one iteration of the consumer may meet in the file system.
RunOutcomes == {"ok", "write_error", "open_error", "close_error"}

\* Lines offered to the recorder while its consumer runs, the hours pass
\* and the service may shut down.
NextRec ==
    /\ \/ recStart /\ UNCHANGED hour
       \/ /\ Len(recOffered) < MaxRecLines
          /\ recTask # "none"
          /\ enqueue(TextMsg(Len(recOffered) + 1))
          /\ UNCHANGED hour
       \/ \E outcome \in RunOutcomes : recRun(outcome) /\ UNCHANGED hour
       \/ recStop /\ UNCHANGED hour
       \/ HourTick /\ UNCHANGED recVars
    /\ UNCHANGED <<hubVars, seqVars, now, dedupVars, pipeVars, edgeVars, ruleVars>>

SpecRec == InitAnyAge /\ [][NextRec]_vars

\* The recorder between the lifespan's start and stop, on a file system
\* that never fails.
NextShutdown ==
    /\ \/ recStart /\ UNCHANGED hour
       \/ /\ Len(recOffered) < MaxRecLines
          /\ recTask = "running"
          /\ enqueue(TextMsg(Len(recOffered) + 1))
          /\ UNCHANGED hour
       \/ recRun("ok") /\ UNCHANGED hour
       \/ recStop /\ UNCHANGED hour
       \/ HourTick /\ UNCHANGED recVars
    /\ UNCHANGED <<hubVars, seqVars, now, dedupVars, pipeVars, edgeVars, ruleVars>>

SpecShutdown == InitAnyAge /\ [][NextShutdown]_vars

\* The recorder with a retention of any number of ticks, a fraction of an
\* hour included.
InitPrune == InitHub({1}, {1}) /\ InitRest(1..(MaxAgeHours * TicksPerHour))

\* The recorder writing lines any number of ticks apart.
NextPrune ==
    /\ \/ recStart /\ UNCHANGED hour
       \/ /\ Len(recOffered) < MaxRecLines
          /\ recTask # "none"
          /\ enqueue(TextMsg(Len(recOffered) + 1))
          /\ UNCHANGED hour
       \/ \E outcome \in RunOutcomes : recRun(outcome) /\ UNCHANGED hour
       \/ /\ ClockTick
          /\ UNCHANGED <<recMaxAge, recQueue, recTask, recFh, recHourKey, recFiles,
                         totalWritten, droppedTotal, recOffered, recStale, recStopped,
                         recHandles, recWrites>>
    /\ UNCHANGED <<hubVars, seqVars, now, dedupVars, pipeVars, edgeVars, ruleVars>>

SpecPrune == InitPrune /\ [][NextPrune]_vars

\* Fewer than limit payloads have been handed to ingest_payload.
IngestsBelow(limit) == Len(acceptedEvents) + rejectedTotal < limit

\* Payloads ingested while subscribers come and go and the recorder
\* writes.
NextPipe ==
    /\ \/ HubCore(1..PipeSockets, 1..PipeTasks) /\ UNCHANGED restVars
       \/ \E t \in 1..PipeTasks, p \in PipePayloads :
             IngestsBelow(MaxPipeIngests) /\ httpIngest(t, p) /\ UNCHANGED authVars
       \/ \E t \in 1..PipeTasks : pipeEnqueue(t) /\ UNCHANGED edgeVars
       \/ \E t \in 1..PipeTasks, outcome \in RulesOutcomes :
             pipeRules(t, outcome) /\ httpReturn(t)
       \/ \E t \in 1..PipeTasks : pipePublish(t) /\ httpReturn(t)
       \/ \E t \in 1..PipeTasks : pipeNoteAlert(t) /\ UNCHANGED edgeVars
       \/ \E t \in 1..PipeTasks : pipeCancel(t) /\ UNCHANGED edgeVars
       \/ recStart /\ UNCHANGED <<hubVars, seqVars, now, dedupVars, hour, pipeVars, edgeVars>>
       \/ recRun("ok") /\ UNCHANGED <<hubVars, seqVars, now, dedupVars, hour, pipeVars, edgeVars>>
    /\ UNCHANGED ruleVars

SpecPipe == InitOneHub /\ [][NextPipe]_vars

\* The payloads of SpecFault: valid events without a sequence.
FaultPayloads == {p \in PipePayloads : p.native /\ ~p.hasSeq}

\* The pipeline in front of subscribers whose senders are never scheduled,
\* with a put that may raise and a recorder whose consumer never runs.
NextFault ==
    /\ \/ \E ws \in 1..FaultSockets : connect(ws) /\ UNCHANGED restVars
       \/ \E t \in 1..PipeTasks : bcPutOk(t) /\ UNCHANGED restVars
       \/ \E t \in 1..PipeTasks : bcBlock(t) /\ UNCHANGED restVars
       \/ \E t \in 1..PipeTasks : bcTimeout(t) /\ UNCHANGED restVars
       \/ \E t \in 1..PipeTasks :
             bcPutError(t) /\ UNCHANGED <<seqVars, now, dedupVars, hour, recVars,
                                          edgeVars>>
       \/ \E t \in 1..PipeTasks, p \in FaultPayloads :
             IngestsBelow(MaxFaultIngests) /\ httpIngest(t, p) /\ UNCHANGED authVars
       \/ \E t \in 1..PipeTasks : pipeEnqueue(t) /\ UNCHANGED edgeVars
       \/ \E t \in 1..PipeTasks, outcome \in RulesOutcomes :
             pipeRules(t, outcome) /\ httpReturn(t)
       \/ \E t \in 1..PipeTasks : pipePublish(t) /\ httpReturn(t)
       \/ \E t \in 1..PipeTasks : pipeNoteAlert(t) /\ UNCHANGED edgeVars
       \/ recStart /\ UNCHANGED <<hubVars, seqVars, now, dedupVars, hour, pipeVars, edgeVars>>
    /\ UNCHANGED ruleVars

SpecFault == InitOneHub /\ [][NextFault]_vars

\* No task stands between the return of broadcast_text and the put_nowait
\* of recorder.enqueue: there is no suspension between the two, so a task
\* at that point runs on before any other does.
NoneAboutToEnqueue == \A t \in Tasks : task[t].pc # "enqueue"

\* The rules fire for no event.
NoAlerts == [raised |-> FALSE, alerts |-> <<>>]

\* Overlapping POST /ingest requests in front of a subscriber whose sender
\* may or may not drain its queue; the recorder's consumer does not run.
NextOverlap ==
    /\ \/ \E t \in 1..OverlapTasks : pipeEnqueue(t) /\ UNCHANGED edgeVars
       \/ /\ NoneAboutToEnqueue
          /\ \/ HubCore(1..OverlapSockets, 1..OverlapTasks) /\ UNCHANGED restVars
             \/ \E t \in 1..OverlapTasks, p \in FaultPayloads :
                   IngestsBelow(MaxOverlapIngests) /\ httpIngest(t, p)
                   /\ UNCHANGED authVars
             \/ \E t \in 1..OverlapTasks : pipeRules(t, NoAlerts) /\ httpReturn(t)
             \/ \E t \in 1..OverlapTasks : pipePublish(t) /\ httpReturn(t)
    /\ UNCHANGED ruleVars

SpecOverlap == InitOneHub /\ [][NextOverlap]_vars

\* Scenario S1: RF payloads posted to a fresh process without subscribers,
\* and the recorder writing.
NextS1 ==
    /\ \/ \E t \in 1..PipeTasks, p \in S1Payloads :
             IngestsBelow(MaxPipeIngests) /\ httpIngest(t, p) /\ UNCHANGED authVars
       \/ \E t \in 1..PipeTasks : pipeEnqueue(t) /\ UNCHANGED edgeVars
       \/ \E t \in 1..PipeTasks, outcome \in RulesOutcomes :
             pipeRules(t, outcome) /\ httpReturn(t)
       \/ \E t \in 1..PipeTasks : pipePublish(t) /\ httpReturn(t)
       \/ \E t \in 1..PipeTasks : pipeNoteAlert(t) /\ UNCHANGED edgeVars
       \/ recStart /\ UNCHANGED <<hubVars, seqVars, now, dedupVars, hour, pipeVars, edgeVars>>
       \/ recRun("ok") /\ UNCHANGED <<hubVars, seqVars, now, dedupVars, hour, pipeVars, edgeVars>>
    /\ UNCHANGED ruleVars

SpecS1 == InitOneHub /\ [][NextS1]_vars

\* The service with or without a shared secret.
InitAuth ==
    /\ InitHub({1}, {1})
    /\ InitSeq /\ now = 0 /\ InitDedup /\ InitRec({0}) /\ InitPipe
    /\ InitEdge({"", "s"})
    /\ InitRules({<<>>})

\* Upgrade and POST requests with any secret in the header and the query,
\* in front of the hub, the pipeline and the recorder.
NextAuth ==
    /\ \/ \E ws \in 1..AuthSockets, header, query \in Secrets :
             websocket_endpoint(ws, header, query)
       \/ \E t \in 1..PipeTasks : bcPutOk(t) /\ UNCHANGED restVars
       \/ \E t \in 1..PipeTasks : bcBlock(t) /\ UNCHANGED restVars
       \/ \E t \in 1..PipeTasks : bcTimeout(t) /\ UNCHANGED restVars
       \/ /\ lastAuth.posts < MaxAuthPosts
          /\ \E t \in 1..PipeTasks, p \in PipePayloads, header, query \in Secrets :
                postIngest(t, p, header, query)
       \/ \E t \in 1..PipeTasks : pipeEnqueue(t) /\ UNCHANGED edgeVars
       \/ \E t \in 1..PipeTasks, outcome \in RulesOutcomes :
             pipeRules(t, outcome) /\ httpReturn(t)
       \/ \E t \in 1..PipeTasks : pipePublish(t) /\ httpReturn(t)
       \/ \E t \in 1..PipeTasks : pipeNoteAlert(t) /\ UNCHANGED edgeVars
    /\ UNCHANGED ruleVars

SpecAuth == InitAuth /\ [][NextAuth]_vars

\* The pipeline's counters: events whose rules return up to two alerts,
\* the deduper's window passing, a subscriber whose sender is never
\* scheduled, and a task that may be cancelled inside a broadcast.
NextAcct ==
    /\ \/ \E ws \in 1..PipeSockets : connect(ws) /\ UNCHANGED restVars
       \/ \E t \in 1..PipeTasks : bcPutOk(t) /\ UNCHANGED restVars
       \/ \E t \in 1..PipeTasks : bcBlock(t) /\ UNCHANGED restVars
       \/ \E t \in 1..PipeTasks : bcTimeout(t) /\ UNCHANGED restVars
       \/ \E t \in 1..PipeTasks, p \in FaultPayloads :
             IngestsBelow(MaxPipeIngests) /\ httpIngest(t, p) /\ UNCHANGED authVars
       \/ \E t \in 1..PipeTasks : pipeEnqueue(t) /\ UNCHANGED edgeVars
       \/ \E t \in 1..PipeTasks, outcome \in AcctOutcomes :
             pipeRules(t, outcome) /\ httpReturn(t)
       \/ \E t \in 1..PipeTasks : pipePublish(t) /\ httpReturn(t)
       \/ \E t \in 1..PipeTasks : pipeNoteAlert(t) /\ UNCHANGED edgeVars
       \/ \E t \in 1..PipeTasks : pipeCancel(t) /\ UNCHANGED edgeVars
       \/ Tick /\ UNCHANGED <<hubVars, seqVars, dedupVars, hour, recVars, pipeVars, edgeVars>>
    /\ UNCHANGED ruleVars

SpecAcct == InitOneHub /\ [][NextAcct]_vars

\* The UDP edge: datagrams arrive, the one consumer task feeds them to the
\* pipeline in front of subscribers, and shutdown cancels the consumer.
NextUdp ==
    /\ \/ \E d \in Datagrams :
             /\ udpReceived < MaxDatagrams
             /\ datagram_received(d)
             /\ UNCHANGED <<hubVars, seqVars, now, dedupVars, hour, recVars, pipeVars>>
       \/ udpGet(UdpConsumer)
       \/ pipeEnqueue(UdpConsumer) /\ UNCHANGED edgeVars
       \/ \E outcome \in RulesOutcomes :
             pipeRules(UdpConsumer, outcome) /\ udpReturn(UdpConsumer)
       \/ pipePublish(UdpConsumer) /\ udpReturn(UdpConsumer)
       \/ pipeNoteAlert(UdpConsumer) /\ UNCHANGED edgeVars
       \/ udpCancel(UdpConsumer)
       \/ HubCore(1..PipeSockets, {UdpConsumer}) /\ UNCHANGED restVars
    /\ UNCHANGED ruleVars

SpecUdp == InitOneHub /\ [][NextUdp]_vars

\* Events evaluated against one loaded rule set while time passes.
NextRules ==
    /\ \/ /\ Len(evalLog) < MaxEvals
          /\ \E results \in EventResults : eval(results)
          /\ UNCHANGED now
       \/ Tick /\ UNCHANGED ruleVars
    /\ UNCHANGED <<hubVars, seqVars, dedupVars, hour, recVars, pipeVars, edgeVars>>

SpecRules == InitAnyRules /\ [][NextRules]_vars

\* The rule files of SpecReload: enabled rules of one condition that have a
\* cooldown.
ReloadFiles ==
    SeqsUpTo({it \in YamlItems :
                 it.enabled /\ ~it.any /\ it.conds = 1 /\ it.cooldown # 0},
             MaxRules)

InitReload ==
    /\ InitHub({1}, {1})
    /\ InitSeq /\ now = 0 /\ InitDedup /\ InitRec({0}) /\ InitPipe /\ InitEdge({""})
    /\ InitRules(ReloadFiles)

\* Events evaluated and the rule file edited and reloaded (POST
\* /api/v1/rules/reload) while time passes.
NextReload ==
    /\ \/ /\ Len(evalLog) < MaxReloadSteps
          /\ \E results \in EventResults : eval(results)
          /\ UNCHANGED now
       \/ /\ Len(evalLog) < MaxReloadSteps
          /\ \E items \in ReloadFiles : load(items)
          /\ UNCHANGED now
       \/ Tick /\ UNCHANGED ruleVars
    /\ UNCHANGED <<hubVars, seqVars, dedupVars, hour, recVars, pipeVars, edgeVars>>

SpecReload == InitReload /\ [][NextReload]_vars

\* Rule sets of every shape of condition list.
InitMatch ==
    /\ InitHub({1}, {1})
    /\ InitSeq /\ now = 0 /\ InitDedup /\ InitRec({0}) /\ InitPipe /\ InitEdge({""})
    /\ InitRules(MatchFiles)

\* Events evaluated against rules with zero, one or two conditions.
NextMatch ==
    /\ Len(evalLog) < MaxMatchEvals
    /\ \E results \in EventResults : eval(results)
    /\ UNCHANGED <<hubVars, seqVars, now, dedupVars, hour, recVars, pipeVars, edgeVars>>

SpecMatch == InitMatch /\ [][NextMatch]_vars

\* The event loop resumes a broadcast whose put has room and fires the
\* timeout of one that is blocked; nothing makes a sender pop.
bcStep(t) == (bcPutOk(t) \/ bcBlock(t) \/ bcTimeout(t)) /\ UNCHANGED restVars

SpecFanFair == SpecFan /\ \A t \in Tasks : WF_vars(bcStep(t))

\* The event loop resumes a sender that waits at queue.get() once the
\* queue holds a message.
senderGetStep(ws) == senderGet(ws) /\ UNCHANGED restVars

\* The socket's send completes: send_text returns or raises.
senderSendStep(ws) == (senderSendOk(ws) \/ senderSendFail(ws)) /\ UNCHANGED restVars

\* The hub of SpecHub with senders that are scheduled and sends that
\* complete.
SpecHubFair ==
    SpecHub /\ \A ws \in Sockets : WF_vars(senderGetStep(ws)) /\ WF_vars(senderSendStep(ws))

----------------------------------------------------------------------------
(* Properties *)

RECURSIVE IsSubseq(_, _)
IsSubseq(s, t) ==
    IF s = <<>> THEN TRUE
    ELSE IF t = <<>> THEN FALSE
    ELSE IF Head(s) = Head(t) THEN IsSubseq(Tail(s), Tail(t))
    ELSE IsSubseq(s, Tail(t))

\* C1: a registered subscriber has fewer than max_backpressure_retries
\* consecutive timed-out puts, and its drop counter equals that number (a
\* successful put resets both); the hub evicts a subscriber for slowness
\* only in the broadcast whose timeout brings the number to
\* max_backpressure_retries, and that broadcast removes it from the
\* registry and closes its socket.
C1_EvictAtThreshold ==
    \A ws \in Sockets :
        /\ Registered(ws) =>
              /\ consec[ws] < maxBackpressureRetries
              /\ dropCounts[ws] = consec[ws]
        /\ evictedBy[ws] \in {"backpressure", "saturated"} =>
              /\ consec[ws] = maxBackpressureRetries
              /\ ~Registered(ws)
              /\ closed[ws] = 1

\* A subscriber that survived one timed-out put and was evicted at the
\* second one.
C1_Witness ==
    \E ws \in Sockets :
        /\ evictedBy[ws] = "backpressure"
        /\ maxBackpressureRetries = 2
        /\ consec[ws] = 2
        /\ closed[ws] = 1
        /\ ~Registered(ws)

\* C2: when a broadcast_text call has returned, its message has been put
\* into the queue of every subscriber of its snapshot, also of those
\* behind a subscriber whose sender never pops; and every call returns,
\* whatever the senders do, because a blocked put ends at its timeout.
C2_DeliveredToAll ==
    \A c \in returned : \A ws \in calls[c].snap :
        \E i \in DOMAIN acceptedLog[ws] : acceptedLog[ws][i] = calls[c].msg

C2_FanoutNotBlocked ==
    /\ []C2_DeliveredToAll
    /\ \A t \in Tasks : (task[t].pc # "idle") ~> (task[t].pc = "idle")

\* The second call found the first subscriber's queue full, its sender never
\* popped, the put timed out, and the second subscriber has the message.
C2_Witness ==
    /\ 2 \in returned
    /\ Len(calls) >= 2
    /\ calls[2].snap = {1, 2}
    /\ sender[1] = "waiting" /\ sentLog[1] = <<>> /\ inflight[1] = NoMsg
    /\ consec[1] >= 1
    /\ \E i \in DOMAIN acceptedLog[2] : acceptedLog[2][i] = calls[2].msg

\* C3: the messages a subscriber's sender has transmitted are a
\* subsequence, in order, of the messages accepted into its queue.
C3_SentInAcceptedOrder ==
    \A ws \in Sockets : IsSubseq(sentLog[ws], acceptedLog[ws])

\* Overlapping broadcasts were accepted out of call order, drop-oldest
\* discarded a queued message, and a later message was sent after it.
C3_Witness ==
    \E ws \in Sockets :
        /\ Len(sentLog[ws]) >= 2
        /\ wsDroppedTotal >= 1
        /\ \E i, j \in DOMAIN acceptedLog[ws] :
              /\ i < j
              /\ acceptedLog[ws][i].id > acceptedLog[ws][j].id
              /\ acceptedLog[ws][i] \notin Range(sentLog[ws])
              /\ acceptedLog[ws][j] \in Range(sentLog[ws])

\* C4 as stated: every accepted event has a sequence >= 0 that is
\* strictly greater than the sequence of every event accepted before it,
\* whoever set the sequences.
C4_StrictlyIncreasing ==
    \A j \in DOMAIN acceptedEvents :
        /\ acceptedEvents[j].seq >= 0
        /\ \A i \in 1..(j - 1) : acceptedEvents[i].seq < acceptedEvents[j].seq

\* C4 amended: every accepted event has a sequence >= 0, and a sequence
\* assigned by the service is strictly greater than every sequence the
\* service assigned to an event accepted before; a sequence supplied in the
\* payload is kept as it is, whatever the earlier events carry.
C4_AssignedIncreasing ==
    \A j \in DOMAIN acceptedEvents :
        /\ acceptedEvents[j].seq >= 0
        /\ \A i \in 1..(j - 1) :
              (acceptedEvents[i].assigned /\ acceptedEvents[j].assigned)
                  => acceptedEvents[i].seq < acceptedEvents[j].seq

\* Two events sequenced by the service, and between them an event whose
\* payload supplied a lower sequence.
C4_Witness ==
    \E i, j, k \in DOMAIN acceptedEvents :
        /\ i < j /\ j < k
        /\ acceptedEvents[i].assigned /\ acceptedEvents[k].assigned
        /\ ~acceptedEvents[j].assigned
        /\ acceptedEvents[j].seq < acceptedEvents[i].seq

\* The values handed out by next_sequence are 1, 2, 3, ... in the order of
\* the calls, whoever calls.
IssuedConsecutive == \A i \in DOMAIN issued : issued[i] = i

\* The counter has advanced once per value handed out (a thread that has
\* stored the counter is about to return the value), so a rejected payload
\* has consumed none.
NoValueLost ==
    sequenceCounter =
        Len(issued) + Cardinality({th \in Threads : thread[th].pc = "return"})

\* C5 as stated: no two accepted events carry the same sequence, and the
\* service hands out consecutive values without loss.
C5_AllUnique ==
    /\ \A i, j \in DOMAIN acceptedEvents :
          i # j => acceptedEvents[i].seq # acceptedEvents[j].seq
    /\ IssuedConsecutive
    /\ NoValueLost

\* C5 amended: the sequences assigned by the service are unique and
\* gap-free: each assignment returns the next consecutive integer, no two
\* events sequenced by the service carry the same sequence, a rejected
\* payload consumes no value, and concurrent callers of next_sequence never
\* obtain the same value; a sequence supplied in the payload may repeat the
\* sequence of another event.
C5_AssignedUnique ==
    /\ \A i, j \in DOMAIN acceptedEvents :
          (i # j /\ acceptedEvents[i].assigned /\ acceptedEvents[j].assigned)
              => acceptedEvents[i].seq # acceptedEvents[j].seq
    /\ \A i \in DOMAIN acceptedEvents :
          acceptedEvents[i].assigned => acceptedEvents[i].seq \in Range(issued)
    /\ IssuedConsecutive
    /\ NoValueLost

\* Two threads and an ingest have drawn values, a payload was rejected, and
\* a supplied sequence repeats an assigned one.
C5_Witness ==
    /\ rejectedTotal >= 1
    /\ threadCalls = 2
    /\ \A th \in Threads : thread[th].pc = "idle"
    /\ Len(issued) = 3
    /\ \E i, j \in DOMAIN acceptedEvents :
          /\ acceptedEvents[i].assigned /\ ~acceptedEvents[j].assigned
          /\ acceptedEvents[i].seq = acceptedEvents[j].seq

\* A step that is a call of validate_or_adapt.
ValidateStep ==
    Len(acceptedEvents') + rejectedTotal' # Len(acceptedEvents) + rejectedTotal

\* C6: validate_or_adapt returns a valid payload that carries a sequence
\* with exactly that sequence and leaves the counter alone; it advances the
\* counter only for an event without a sequence, by exactly one, and
\* assigns the new value.
C6_SequencePreserved ==
    [][ValidateStep =>
          /\ (lastCall'.valid /\ lastCall'.hasSeq) =>
                /\ lastCall'.ok
                /\ lastCall'.event.seq = lastCall'.seq
                /\ sequenceCounter' = sequenceCounter
          /\ sequenceCounter' # sequenceCounter =>
                /\ ~(lastCall'.valid /\ lastCall'.hasSeq)
                /\ sequenceCounter' = sequenceCounter + 1
                /\ lastCall'.ok
                /\ lastCall'.event.seq = sequenceCounter'
          /\ (lastCall'.ok /\ sequenceCounter' = sequenceCounter) =>
                lastCall'.valid /\ lastCall'.hasSeq]_vars

\* A supplied sequence was kept although the counter stood elsewhere.
C6_Witness ==
    /\ lastCall.valid /\ lastCall.hasSeq /\ lastCall.ok
    /\ lastCall.event.seq = lastCall.seq
    /\ ~lastCall.event.assigned
    /\ sequenceCounter >= 1
    /\ lastCall.seq # sequenceCounter

\* C7: once should_send returned true for a key at time t, every call for
\* that key at a time t2 with t2 - t < ttl returns false, and each such call
\* adds one to the suppressed counter; a call is suppressed only by an
\* alert of its own key sent less than ttl before, so alerts with different
\* keys never suppress each other.
C7_DuplicateSuppressed ==
    /\ \A i, j \in DOMAIN dedupLog :
          (/\ i < j
           /\ dedupLog[i].key = dedupLog[j].key
           /\ dedupLog[i].send
           /\ dedupLog[j].t - dedupLog[i].t < DedupTtl) => ~dedupLog[j].send
    /\ \A j \in DOMAIN dedupLog :
          ~dedupLog[j].send =>
              \E i \in 1..(j - 1) :
                  /\ dedupLog[i].key = dedupLog[j].key
                  /\ dedupLog[i].send
                  /\ dedupLog[j].t - dedupLog[i].t < DedupTtl
    /\ totalSuppressed = Cardinality({j \in DOMAIN dedupLog : ~dedupLog[j].send})
    /\ totalChecked = Len(dedupLog)

\* An alert was sent, its duplicate suppressed one tick later, an alert
\* of another key sent in between or after, and the map pruned.
C7_Witness ==
    \E i, j, k \in DOMAIN dedupLog :
        /\ i < j
        /\ dedupLog[i].alert = dedupLog[j].alert
        /\ dedupLog[i].send /\ ~dedupLog[j].send
        /\ dedupLog[j].t > dedupLog[i].t
        /\ dedupLog[k].key # dedupLog[i].key /\ dedupLog[k].send
        /\ dedupLog[k].t - dedupLog[i].t < DedupTtl
        /\ totalSuppressed = 1

\* The number of copies of a line in the hour files.
Written(line) ==
    LET RECURSIVE Sum(_)
        Sum(hs) == IF hs = {} THEN 0
                   ELSE LET h == CHOOSE x \in hs : TRUE
                        IN  Cardinality({i \in DOMAIN recFiles[h].lines :
                                            recFiles[h].lines[i] = line})
                                + Sum(hs \ {h})
    IN  Sum(DOMAIN recFiles)

\* C8 as stated: every line passed to enqueue was dropped at enqueue and
\* counted, or is written exactly once, or still waits in the queue of a
\* recorder whose consumer can take it; no line is written twice.
C8_EveryLineWrittenOnce ==
    /\ droppedTotal = Cardinality({i \in DOMAIN recOffered : ~recOffered[i].queued})
    /\ \A i \in DOMAIN recOffered :
          IF recOffered[i].queued
          THEN \/ Written(recOffered[i].line) = 1
               \/ /\ Written(recOffered[i].line) = 0
                  /\ recOffered[i].line \in Range(recQueue)
                  /\ recTask \in {"none", "running"}
          ELSE Written(recOffered[i].line) = 0

\* A step that is a call of enqueue.
EnqueueStep == Len(recOffered') = Len(recOffered) + 1

\* C9: enqueue on a queue at capacity leaves the queue as it is and adds
\* exactly one to dropped_total; with room it appends the line at the tail
\* and counts nothing; the queue never holds more than its capacity.
C9_EnqueueNeverWaits ==
    /\ [](Len(recQueue) <= RecQueueMax)
    /\ [][EnqueueStep =>
            LET line == recOffered'[Len(recOffered')].line
            IN  IF Len(recQueue) >= RecQueueMax
                THEN /\ recQueue' = recQueue
                     /\ droppedTotal' = droppedTotal + 1
                     /\ ~recOffered'[Len(recOffered')].queued
                ELSE /\ recQueue' = Append(recQueue, line)
                     /\ droppedTotal' = droppedTotal
                     /\ recOffered'[Len(recOffered')].queued]_vars

\* The queue is at capacity, and the last enqueue found it so and dropped
\* its line.
C9_Witness ==
    /\ Len(recQueue) = RecQueueMax
    /\ droppedTotal = 1
    /\ recOffered # <<>>
    /\ ~recOffered[Len(recOffered)].queued
    /\ recOffered[Len(recOffered)].line \notin Range(recQueue)

\* The entries of the dispatch log with the given operation and event.
Logged(op, ev) == {k \in DOMAIN pipeLog : pipeLog[k].op = op /\ pipeLog[k].ev = ev}

\* C10: the recorder gets the event's string after the broadcast of the
\* same string has returned, at most once, and exactly once when the
\* dispatch has returned; an alert of the event is broadcast, and reaches
\* a subscriber's queue, only after that enqueue.
C10_RecordedBeforeAlert ==
    /\ \A k \in DOMAIN pipeLog :
          pipeLog[k].op = "alert" =>
              \E j \in 1..(k - 1) :
                  pipeLog[j].op = "enqueue" /\ pipeLog[j].ev = pipeLog[k].ev
    /\ \A j \in DOMAIN pipeLog :
          pipeLog[j].op = "enqueue" =>
              \E i \in 1..(j - 1) :
                  /\ pipeLog[i].op = "broadcast"
                  /\ pipeLog[i].ev = pipeLog[j].ev
                  /\ pipeLog[i].msg = pipeLog[j].msg
                  /\ pipeLog[i].call \in returned
    /\ \A ev \in 1..Len(acceptedEvents) :
          /\ Cardinality(Logged("broadcast", ev)) = 1
          /\ Cardinality(Logged("enqueue", ev)) <= 1
          /\ ev \in dispatched => Cardinality(Logged("enqueue", ev)) = 1
    /\ Len(recOffered) = Cardinality({k \in DOMAIN pipeLog : pipeLog[k].op = "enqueue"})
    /\ \A i \in DOMAIN recOffered :
          \E k \in DOMAIN pipeLog :
              pipeLog[k].op = "enqueue" /\ pipeLog[k].msg = recOffered[i].line
    /\ \A ws \in Sockets : \A i \in DOMAIN acceptedLog[ws] :
          acceptedLog[ws][i].kind = "alert" => Logged("enqueue", acceptedLog[ws][i].id) # {}

\* The first event was broadcast and recorded, its alert reached the
\* subscriber that had received the event, and the line is in the hour file;
\* the alert of the second event was suppressed as a duplicate.
C10_Witness ==
    /\ \E i, j, k \in DOMAIN pipeLog :
          /\ i < j /\ j < k
          /\ pipeLog[i].op = "broadcast" /\ pipeLog[i].ev = 1
          /\ pipeLog[j].op = "enqueue" /\ pipeLog[j].ev = 1
          /\ pipeLog[k].op = "alert" /\ pipeLog[k].ev = 1
          /\ Written(pipeLog[j].msg) = 1
          /\ \E ws \in Sockets :
                /\ pipeLog[i].msg \in Range(acceptedLog[ws])
                /\ pipeLog[k].msg \in Range(acceptedLog[ws])
    /\ dispatched = {1, 2}
    /\ Logged("enqueue", 2) # {}
    /\ Logged("alert", 2) = {}
    /\ totalSuppressed = 1

\* A step in which rules.apply raised.
RulesRaiseStep ==
    /\ Len(pipeLog') > Len(pipeLog)
    /\ \E k \in (Len(pipeLog) + 1)..Len(pipeLog') : pipeLog'[k].op = "rules_raised"

\* C11: when rules.apply raises for an event, ingest_payload returns the
\* event, which has been broadcast and enqueued to the recorder; the step
\* counts it in validated_total, broadcasts nothing and leaves alerts_total
\* alone, and no alert of that event is ever broadcast or counted.
C11_RuleFailureKeepsEvent ==
    /\ [](\A k \in DOMAIN pipeLog :
            pipeLog[k].op = "rules_raised" =>
                LET ev == pipeLog[k].ev
                IN  /\ ev \in dispatched
                    /\ Logged("failed", ev) = {}
                    /\ \E i, j \in 1..(k - 1) :
                          /\ i < j
                          /\ pipeLog[i].op = "broadcast" /\ pipeLog[i].ev = ev
                          /\ pipeLog[j].op = "enqueue" /\ pipeLog[j].ev = ev
                    /\ Logged("alert", ev) = {})
    /\ [](alertsTotal <= Cardinality({k \in DOMAIN pipeLog : pipeLog[k].op = "alert"}))
    /\ [][RulesRaiseStep =>
            /\ validatedTotal' = validatedTotal + 1
            /\ alertsTotal' = alertsTotal
            /\ calls' = calls
            /\ recOffered' = recOffered]_vars

\* The rules raised for the second event after the alert of the first was
\* broadcast and counted; both events were returned.
C11_Witness ==
    /\ Logged("rules_raised", 2) # {}
    /\ Logged("alert", 1) # {}
    /\ dispatched = {1, 2}
    /\ validatedTotal = 2
    /\ alertsTotal = 1

\* A step in which validate_or_adapt raised the validation error.
RejectStep == rejectedTotal' = rejectedTotal + 1

\* C12 as stated: a payload that neither validates nor adapts makes
\* ingest_payload raise and change nothing: no broadcast, no recorder line,
\* no counter; the HTTP route answers 422 and does not count a drop.
C12_RejectChangesNothing ==
    [][RejectStep =>
          /\ UNCHANGED <<calls, queues, acceptedLog, task, recQueue, recOffered,
                         droppedTotal, pipeLog, dispatched, validatedTotal,
                         alertsTotal, sequenceCounter, adapterCounts, issued,
                         acceptedEvents, dedupVars, statsDropped>>
          /\ ~lastCall'.ok
          /\ httpLog' = Append(httpLog, [status |-> 422, ev |-> 0])]_vars

\* A step in which a put to a subscriber raised an unexpected error.
PutErrorStep ==
    /\ Len(pipeLog') = Len(pipeLog) + 1
    /\ pipeLog'[Len(pipeLog')].op = "put_error"

\* The subscribers at which a put of broadcast call c raised.
PutErrors(c) ==
    {pipeLog[k].ws : k \in {i \in DOMAIN pipeLog :
                                pipeLog[i].op = "put_error" /\ pipeLog[i].call = c}}

\* C13: once a payload is validated nothing downstream makes ingest_payload
\* fail: every accepted event is returned to the caller (answer 200) or its
\* dispatch is still under way, whatever happened to the broadcasts, the
\* recorder queue, the deduper and the alerts; an unexpected error while
\* queuing to one subscriber evicts that subscriber alone, the broadcast
\* goes on, and when it has returned every other subscriber of its snapshot
\* has accepted the message.
C13_DownstreamFailuresSwallowed ==
    /\ [](\A k \in DOMAIN pipeLog : pipeLog[k].op # "failed")
    /\ [](\A k \in DOMAIN httpLog : httpLog[k].status = 500 => httpLog[k].ev = 0)
    /\ [](\A ev \in DOMAIN acceptedEvents :
            \/ /\ ev \in dispatched
               /\ \E k \in DOMAIN httpLog : httpLog[k] = [status |-> 200, ev |-> ev]
            \/ \E t \in Tasks : ingest[t].ev = ev /\ task[t].pc # "idle")
    /\ [](\A c \in returned : \A ws \in calls[c].snap \ PutErrors(c) :
            \E i \in DOMAIN acceptedLog[ws] : acceptedLog[ws][i] = calls[c].msg)
    /\ [][PutErrorStep =>
            LET ws == pipeLog'[Len(pipeLog')].ws
            IN  /\ Range(clients') = Range(clients) \ {ws}
                /\ wsDroppedTotal' = wsDroppedTotal + 1
                /\ queues' = queues
                /\ \A t \in Tasks :
                      task'[t] # task[t] =>
                          /\ task'[t].pc \in {"put", task[t].ret}
                          /\ task'[t].pc = "put" <=> Len(task[t].snap) > 1]_vars

\* The put of the third event raised at the first of two subscribers, which
\* was evicted; the second subscriber accepted the event, the recorder
\* queue was full and counted the line as dropped, and the caller got its
\* answer 200.
C13_Witness ==
    /\ \E c \in returned :
          /\ calls[c].snap = {1, 2}
          /\ PutErrors(c) = {1}
          /\ calls[c].msg = EventMsg(3, 3)
          /\ \E i \in DOMAIN acceptedLog[2] : acceptedLog[2][i] = calls[c].msg
    /\ evictedBy[1] = "error"
    /\ Registered(2)
    /\ droppedTotal = 1
    /\ 3 \in dispatched
    /\ \E k \in DOMAIN httpLog : httpLog[k] = [status |-> 200, ev |-> 3]

\* A step of datagram_received.
DatagramStep == udpReceived' = udpReceived + 1

ConsumeStep == udpTaken' = udpTaken + 1

\* The item at the head of the handoff queue fails: it is no JSON, or
\* ingest_payload raises for its payload.
HeadFails ==
    LET raw == Head(udpQueue)
    IN  ~raw.json \/ ~ValidateOrAdapt(raw.payload, sequenceCounter).ok

\* C15: udp_consumer survives every bad datagram: an item that is no JSON,
\* fails validation or makes ingest raise adds one to dropped, task_done is
\* called for it, and the consumer is back at queue.get; task_done has
\* been called exactly once for every item taken, except the one being
\* dispatched; the consumer never ends by an exception, and it ends only
\* by cancellation, with task_done called for the item it was working on.
C15_ConsumerSurvives ==
    /\ [](udpTask # "crashed")
    /\ [](udpTaken = udpDone + (IF udpTask = "busy" THEN 1 ELSE 0))
    /\ [][(ConsumeStep /\ HeadFails) =>
            /\ statsDropped' = statsDropped + 1
            /\ udpDone' = udpDone + 1
            /\ udpTask' = "waiting"
            /\ udpQueue' = Tail(udpQueue)]_vars
    /\ [][(ConsumeStep /\ ~HeadFails) =>
            /\ statsDropped' = statsDropped
            /\ udpTask' = "busy"]_vars
    /\ [][(udpTask' = "cancelled" /\ udpTask # "cancelled") =>
            /\ udpTask = "busy" =>
                  /\ udpDone' = udpDone + 1
                  /\ pipeLog'[Len(pipeLog')].op = "cancelled"
            /\ udpTask = "waiting" => udpDone' = udpDone
            /\ statsDropped' = statsDropped]_vars

\* The consumer dropped an item that was no JSON and one that ingest
\* rejected, went on to dispatch a valid event, and was then cancelled.
C15_Witness ==
    /\ udpTaken = 3
    /\ udpDone = 3
    /\ statsDropped = 2
    /\ rejectedTotal = 1
    /\ dispatched = {1}
    /\ udpTask = "cancelled"

\* C16 as stated: stop() called after start() completes normally and
\* leaves no file handle open.
C16_StopReleasesHandle ==
    recStopped # "no" => (recStopped = "returned" /\ recFh = -1)

\* A step in which the recorder left the file of one hour for another.
RotateStep == recFh # -1 /\ recHourKey' # recHourKey

\* C17: the recorder holds at most one open file handle, the one _fh refers
\* to; every line is written to the file named for the hour at the moment
\* of the write; when the hour key changes the handle of the previous file
\* is closed, also when the open of the new file fails; and no line is
\* written to the file of an earlier hour after a line of a later one.
C17_OneHandlePerHour ==
    /\ [](Cardinality(recHandles) <= 1)
    /\ [](recHandles = IF recFh = -1 THEN {} ELSE {recFh})
    /\ [](\A i \in DOMAIN recWrites :
            /\ recWrites[i].file = recWrites[i].hour
            /\ \A j \in DOMAIN recWrites :
                  i < j => recWrites[i].file <= recWrites[j].file)
    /\ [](\A h \in DOMAIN recFiles :
            recFiles[h].exists =>
                \A k \in DOMAIN recFiles[h].lines :
                    \E i \in DOMAIN recWrites :
                        recWrites[i].line = recFiles[h].lines[k] /\ recWrites[i].file = h)
    /\ [][RotateStep =>
            /\ recFh \notin recHandles'
            /\ recHandles' \subseteq {hour}]_vars

\* A line was written to the file of hour 0, the hour changed, and the next
\* line went to the file of hour 1 through the only open handle.
C17_Witness ==
    /\ Len(recWrites) = 2
    /\ recWrites[1].file = 0
    /\ recWrites[2].file = 1
    /\ recHandles = {1}
    /\ recFiles[0].exists /\ Len(recFiles[0].lines) = 1
    /\ Len(recFiles[1].lines) = 1

\* A step of the consumer that got past the open of _rollover_if_needed.
RolloverDone == Len(recQueue') < Len(recQueue) /\ recFh' # -1 /\ recTask' # "dead"

\* The hour files a step removed.
Removed == {h \in DOMAIN recFiles : recFiles[h].exists /\ ~recFiles'[h].exists}

Fired(i, k) == i \in Range(evalLog[k].alerts)

\* The k-th evaluation comes less than the rule's cooldown after an alert
\* that the rule at position i emitted.
InOwnCooldown(i, k) ==
    \E j \in 1..(k - 1) :
        Fired(i, j) /\ evalLog[k].time - evalLog[j].time < ruleSet[i].cooldown

\* C19 as stated: a rule with a cooldown c > 0 that matches less than c
\* after its last emitted alert emits nothing and leaves last_fire as it
\* was; otherwise it emits the alert and last_fire is now; two alerts of
\* the same rule are never less than c apart.
C19_CooldownPerRule ==
    \A k \in DOMAIN evalLog : \A i \in evalLog[k].matched :
        ruleSet[i].cooldown > 0 =>
            LET e == evalLog[k]
                name == ruleSet[i].name
            IN  /\ InOwnCooldown(i, k) =>
                      /\ ~Fired(i, k)
                      /\ e.lastAfter[name] = e.lastBefore[name]
                /\ ~InOwnCooldown(i, k) =>
                      /\ Fired(i, k)
                      /\ e.lastAfter[name] = e.time
                /\ \A j \in 1..(k - 1) :
                      (Fired(i, j) /\ Fired(i, k)) =>
                          e.time - evalLog[j].time >= ruleSet[i].cooldown

\* C20 as stated: eval returns exactly one alert for every loaded rule that
\* matches and is not in cooldown, in declaration order, whatever the rules
\* before it did; and no alert comes from an item with a false enabled
\* flag.
C20_AllMatchingFire ==
    \A k \in DOMAIN evalLog :
        LET e == evalLog[k]
        IN  /\ Range(e.alerts) =
                  {i \in e.matched : ruleSet[i].cooldown = 0 \/ ~InOwnCooldown(i, k)}
            /\ \A a, b \in DOMAIN e.alerts : a < b => e.alerts[a] < e.alerts[b]
            /\ \A a \in DOMAIN e.alerts : ruleFile[ruleSet[e.alerts[a]].item].enabled

\* C21: a rule emits its alert for an event iff all results of its
\* conditions are true, or, with any_match, at least one is true; a rule
\* without conditions emits for every event under AND and for none under OR.
C21_MatchCombination ==
    \A k \in DOMAIN evalLog : \A i \in DOMAIN ruleSet :
        LET results == evalLog[k].results[i]
            any_match == ruleFile[ruleSet[i].item].any
        IN  /\ Len(results) = ruleFile[ruleSet[i].item].conds
            /\ ~any_match => (Fired(i, k) <=> FALSE \notin Range(results))
            /\ any_match => (Fired(i, k) <=> TRUE \in Range(results))
            /\ results = <<>> => (Fired(i, k) <=> ~any_match)

\* An OR rule of two conditions fired on one true result and kept silent on
\* none, and an AND rule without conditions fired both times; an OR rule
\* without conditions would not.
C21_Witness ==
    /\ Len(ruleSet) = 2
    /\ ruleSet[1].any_match /\ ~ruleSet[2].any_match
    /\ \E j, k \in DOMAIN evalLog :
          /\ evalLog[j].results = << <<TRUE, FALSE>>, <<>> >>
          /\ evalLog[j].alerts = <<1, 2>>
          /\ evalLog[k].results = << <<FALSE, FALSE>>, <<>> >>
          /\ evalLog[k].alerts = <<2>>

\* The alert messages of event ev that broadcast_text was called with.
AlertCalls(ev) ==
    {c \in DOMAIN calls : calls[c].msg.kind = "alert" /\ calls[c].msg.id = ev}

\* C22: validated_total counts one per event that reached note_validated,
\* at most one per accepted event and exactly one per event whose dispatch
\* returned; total_checked counts one per alert handed to the deduper,
\* which for a returned dispatch is every alert the rules returned;
\* alerts_total counts one per alert that passed the deduper and whose
\* broadcast returned, which for a returned dispatch is exactly the number
\* of alert messages broadcast for the event.
C22_PipelineAccounting ==
    /\ validatedTotal = Cardinality({k \in DOMAIN pipeLog : pipeLog[k].op = "validated"})
    /\ totalChecked =
          Cardinality({k \in DOMAIN pipeLog : pipeLog[k].op \in {"alert", "suppressed"}})
    /\ totalSuppressed =
          Cardinality({k \in DOMAIN pipeLog : pipeLog[k].op = "suppressed"})
    /\ alertsTotal = Cardinality({k \in DOMAIN pipeLog : pipeLog[k].op = "noted"})
    /\ \A ev \in DOMAIN acceptedEvents :
          LET validated == Cardinality(Logged("validated", ev))
              fromRules == Cardinality(Logged("rule_alert", ev))
              passed == Cardinality(Logged("alert", ev))
              suppressed == Cardinality(Logged("suppressed", ev))
              noted == Cardinality(Logged("noted", ev))
          IN  /\ validated <= 1
              /\ passed + suppressed <= fromRules
              /\ noted <= passed /\ passed <= noted + 1
              /\ Cardinality(AlertCalls(ev)) = passed
              /\ ev \in dispatched =>
                    /\ validated = 1
                    /\ passed + suppressed = fromRules
                    /\ noted = passed
                    /\ AlertCalls(ev) \subseteq returned

\* The first event had two alerts of one key, of which the second was
\* suppressed; the second event had two alerts of different keys, one
\* suppressed as a duplicate of the first event's and one broadcast.
C22_Witness ==
    /\ dispatched = {1, 2}
    /\ validatedTotal = 2
    /\ totalChecked = 4
    /\ totalSuppressed = 2
    /\ alertsTotal = 2
    /\ Cardinality(AlertCalls(1)) = 1
    /\ Cardinality(AlertCalls(2)) = 1
    /\ Cardinality(Logged("suppressed", 2)) = 1

\* A step in which a request came to the secret check.
AuthStep == lastAuth'.n = lastAuth.n + 1

\* C23: with a shared secret configured, a request that carries it neither
\* in the header nor in the query is refused, the upgrade with close code
\* 4401 and the POST with status 401, and the step changes nothing of the
\* hub, the sequence counter, the pipeline, the deduper and the recorder; a
\* refused socket is never registered, has no sender and no queue entry and
\* is in no broadcast's snapshot; without a secret every request goes on to
\* hub.connect or to validate_or_adapt.
C23_UnauthorizedRefused ==
    /\ [](\A ws \in Sockets :
            route[ws] = "refused" =>
                /\ ~Registered(ws)
                /\ sender[ws] = "none"
                /\ queues[ws] = <<>> /\ acceptedLog[ws] = <<>>
                /\ closed[ws] = 1
                /\ \A c \in DOMAIN calls : ws \notin calls[c].snap)
    /\ [][AuthStep =>
            LET r == lastAuth'
                mismatch == /\ sharedSecret # ""
                            /\ r.header # sharedSecret
                            /\ r.query # sharedSecret
            IN  /\ mismatch =>
                      /\ UNCHANGED <<clients, queues, sender, dropCounts, calls, task,
                                     acceptedLog, seqVars, dedupVars, recVars, pipeVars,
                                     statsDropped>>
                      /\ r.kind = "ws" =>
                            /\ r.code = 4401
                            /\ route'[r.id] = "refused"
                            /\ closed'[r.id] = closed[r.id] + 1
                      /\ r.kind = "post" =>
                            /\ r.code = 401
                            /\ httpLog' = Append(httpLog, [status |-> 401, ev |-> 0])
                /\ sharedSecret = "" =>
                      /\ r.code = 0
                      /\ r.kind = "ws" => r.id \in Range(clients')
                      /\ r.kind = "post" => ValidateStep
                /\ r.code = 0 =>
                      \/ sharedSecret = ""
                      \/ sharedSecret \in {r.header, r.query}]_vars

\* With the secret "s" configured, the first socket came with another
\* secret and was refused; the second came with "s", was registered and
\* has received the event of a POST that carried "s" in the query, after a
\* POST with a wrong header had been answered 401.
C23_Witness ==
    /\ sharedSecret = "s"
    /\ route[1] = "refused" /\ closed[1] = 1
    /\ Registered(2)
    /\ acceptedLog[1] = <<>>
    /\ acceptedLog[2] # <<>>
    /\ httpLog = <<[status |-> 401, ev |-> 0], [status |-> 200, ev |-> 1]>>
    /\ lastAuth.posts = 2
    /\ lastAuth.kind = "post" /\ lastAuth.header = "" /\ lastAuth.query = "s"
    /\ Len(recOffered) = 1

\* C24 as stated: an RF payload with data of type "frequency" in MHz and
\* value v, posted to a fresh process, is recorded as one line whose
\* data.value.frequency_hz is round(v x 10^6), with schema_version "1.0",
\* and the first such event has sequence 1.
C24_S1RecordedInHz ==
    /\ \A n \in DOMAIN acceptedEvents :
          /\ Cardinality({i \in DOMAIN recWrites : recWrites[i].line.id = n}) <= 1
          /\ n \in dispatched => \E i \in DOMAIN recOffered : recOffered[i].line.id = n
    /\ \A i \in DOMAIN recWrites :
          LET n == recWrites[i].line.id
              e == acceptedEvents[n]
          IN  /\ recWrites[i].line = EventMsg(n, e.seq)
              /\ e.data.frequency_hz = RoundToHz(e.input)
              /\ e.data.schema_version = "1.0"
              /\ n = 1 => e.seq = 1

\* A step of task t, blocked in its put, that is not the completion of the
\* put: the timeout and the backpressure handling that follows it.
TimeoutStep(t) ==
    LET ws == Head(task[t].snap)
    IN  /\ task[t].pc = "blocked"
        /\ task'[t] # task[t]
        /\ ~ (/\ queues'[ws] = Append(queues[ws], task[t].msg)
              /\ wsDroppedTotal' = wsDroppedTotal
              /\ dropCounts'[ws] = 0)

\* C25: when a put times out and the subscriber is not evicted, ws_dropped
\* and the subscriber's drop counter each grow by exactly one, the oldest
\* queued message (and no other) is discarded, the new message becomes the
\* newest element of the queue, and the queue stays within its capacity.
C25_BackpressureStep ==
    [][\A t \in Tasks :
          LET ws == Head(task[t].snap)
              q == queues[ws]
          IN  (TimeoutStep(t) /\ Registered(ws) /\ ws \in Range(clients'))
              => /\ wsDroppedTotal' = wsDroppedTotal + 1
                 /\ dropCounts'[ws] = dropCounts[ws] + 1
                 /\ queues'[ws] = (IF q = <<>> THEN <<>> ELSE Tail(q)) \o <<task[t].msg>>
                 /\ Len(queues'[ws]) <= wsQueueMax
                 /\ \A other \in Sockets \ {ws} :
                       queues'[other] = queues[other] /\ dropCounts'[other] = dropCounts[other]
                 /\ clients' = clients /\ sender' = sender /\ closed' = closed]_vars

\* A subscriber with a queue of two that took a timeout and was kept: its
\* drop counter is 1, the second and the third message are queued in that
\* order, and the first was never sent.
C25_Witness ==
    /\ wsQueueMax = 2 /\ maxBackpressureRetries = 2
    /\ Registered(1)
    /\ dropCounts[1] = 1 /\ wsDroppedTotal = 1
    /\ queues[1] = <<TextMsg(2), TextMsg(3)>>
    /\ acceptedLog[1] = <<TextMsg(1), TextMsg(2), TextMsg(3)>>
    /\ sentLog[1] = <<>> /\ inflight[1] = NoMsg

\* A caller's WSHub.disconnect call is made in this step.
DisconnectStep == lastDisconnect'.n = lastDisconnect.n + 1

\* The state of the hub: registry, drop counters, queues, senders, sockets
\* closed and counters.
HubState == <<clients, dropCounts, queues, sender, inflight, closed, wsSentTotal,
              wsDroppedTotal>>

\* C26 as stated: disconnect never raises; on a registered subscriber it
\* removes the registry entry and the drop counter, cancels the sender and
\* closes the socket once; a second disconnect, a disconnect of a socket
\* that was never registered, and a disconnect whose close() fails change
\* no hub state.
C26_RepeatOrFailedCloseChangesNothing ==
    [][DisconnectStep =>
          LET ws == lastDisconnect'.ws
          IN  /\ lastDisconnect'.raised = "none"
              /\ Registered(ws) =>
                    /\ ws \notin Range(clients') /\ dropCounts'[ws] = 0
                    /\ sender'[ws] = "done" /\ closed'[ws] = closed[ws] + 1
              /\ (~Registered(ws) \/ lastDisconnect'.close = "RuntimeError") =>
                    HubState' = HubState]_vars

\* C26, amended: disconnect never raises, whether close() fails or not; on
\* a registered subscriber it removes the registry entry and the drop
\* counter, cancels the sender and calls close() once, and leaves every
\* other subscriber alone; on a socket that is not registered (a second
\* disconnect, or a socket that never connected) it cancels nothing,
\* closes nothing and changes no hub state, except that it removes the
\* drop counter a timed-out put has left for that socket meanwhile.
C26_DisconnectIdempotent ==
    [][DisconnectStep =>
          LET ws == lastDisconnect'.ws
          IN  /\ lastDisconnect'.raised = "none"
              /\ ws \notin Range(clients') /\ dropCounts'[ws] = 0
              /\ \A other \in Sockets \ {ws} :
                    /\ other \in Range(clients') <=> Registered(other)
                    /\ dropCounts'[other] = dropCounts[other]
                    /\ sender'[other] = sender[other]
                    /\ inflight'[other] = inflight[other]
                    /\ closed'[other] = closed[other]
              /\ <<queues, wsSentTotal, wsDroppedTotal>>' =
                    <<queues, wsSentTotal, wsDroppedTotal>>
              /\ IF Registered(ws)
                 THEN sender'[ws] = "done" /\ closed'[ws] = closed[ws] + 1
                 ELSE <<clients, sender, inflight, closed>>' =
                        <<clients, sender, inflight, closed>>]_vars

\* A second disconnect of a socket that a caller's first disconnect
\* removed and closed: the socket has been closed once and is not
\* registered.
C26_Witness ==
    /\ lastDisconnect.n = 2 /\ lastDisconnect.ws = 1 /\ ~lastDisconnect.registered
    /\ evictedBy[1] = "caller" /\ closed[1] = 1 /\ sender[1] = "done"
    /\ ~Registered(1) /\ dropCounts[1] = 0

\* A step of the sender of ws alone that ends its send otherwise than by
\* send_text returning.
SendFailStep(ws) ==
    /\ sender[ws] = "sending" /\ sender'[ws] # "sending"
    /\ <<sentLog, route, task, lastDisconnect>>' = <<sentLog, route, task, lastDisconnect>>

\* A step of another task that ends the sender of ws.
CancelStep(ws) ==
    /\ sender[ws] \in {"waiting", "sending"}
    /\ sender'[ws] \notin {"waiting", "sending"}
    /\ ~SendFailStep(ws)

\* C27: when send_text fails in a subscriber's sender, the task exits, the
\* subscriber is removed from the registry and its socket closed once, by
\* the sender's own cleanup and with no other task or subscriber touched;
\* when a disconnect cancels the sender, the sender finds the subscriber
\* removed already and exits without calling disconnect, so that the
\* socket is closed once, by the disconnect that cancelled the sender.
C27_SenderFailurePath ==
    [][\A ws \in Sockets :
          /\ SendFailStep(ws) =>
                /\ Registered(ws) /\ ws \notin Range(clients')
                /\ sender'[ws] = "done" /\ closed'[ws] = closed[ws] + 1
                /\ dropCounts'[ws] = 0 /\ evictedBy'[ws] = "sender"
                /\ \A other \in Sockets \ {ws} :
                      /\ sender'[other] = sender[other]
                      /\ closed'[other] = closed[other]
                      /\ other \in Range(clients') <=> Registered(other)
                /\ <<queues, wsSentTotal, wsDroppedTotal>>' =
                      <<queues, wsSentTotal, wsDroppedTotal>>
          /\ CancelStep(ws) =>
                /\ Registered(ws) /\ ws \notin Range(clients')
                /\ sender'[ws] = "done" /\ closed'[ws] = closed[ws] + 1
                /\ evictedBy'[ws] # "sender"
          /\ closed'[ws] <= 1]_vars

\* The sender of a subscriber failed while it sent the second message: the
\* first was sent, the second was not, the subscriber is gone and its
\* socket closed once, and its route has not returned yet.
C27_Witness ==
    /\ evictedBy[1] = "sender" /\ sender[1] = "done" /\ ~Registered(1)
    /\ closed[1] = 1 /\ route[1] = "serving"
    /\ sentLog[1] = <<TextMsg(1)>>
    /\ acceptedLog[1] = <<TextMsg(1), TextMsg(2)>> /\ queues[1] = <<>>

\* C28: broadcast_text runs over the membership as it was when the call
\* began.  No socket outside the snapshot of a call accepts the message of
\* that call; only connect registers a socket and a socket that was
\* removed is never registered again; every step of the loop, whether the
\* subscriber at hand is still registered or not, waits, or goes on to the
\* next subscriber of the snapshot, or returns when there is none; and
\* when the call has returned every subscriber of its snapshot has
\* accepted the message.
C28_BroadcastOverSnapshot ==
    /\ [](/\ \A ws \in Sockets : \A i \in DOMAIN acceptedLog[ws] :
               ws \in calls[acceptedLog[ws][i].id].snap
          /\ \A ws \in Sockets : evictedBy[ws] # "none" => ~Registered(ws)
          /\ \A c \in returned : \A ws \in calls[c].snap :
               calls[c].msg \in Range(acceptedLog[ws]))
    /\ [][/\ \A ws \in Sockets :
               (ws \in Range(clients') /\ ~Registered(ws))
                  => route[ws] = "new" /\ route'[ws] = "serving"
          /\ \A t \in Tasks :
               (task[t].pc \in {"put", "blocked"} /\ task'[t] # task[t])
                  => \/ /\ task'[t] = [task[t] EXCEPT !.pc = "blocked"]
                        /\ returned' = returned
                     \/ /\ Tail(task[t].snap) # <<>>
                        /\ task'[t] = [task[t] EXCEPT !.pc = "put",
                                                      !.snap = Tail(task[t].snap)]
                        /\ returned' = returned
                     \/ /\ Tail(task[t].snap) = <<>>
                        /\ task'[t] = IdleTask
                        /\ returned' = returned \cup {task[t].call}]_vars

\* The first broadcast began with socket 1 alone, and socket 2, which
\* connected later, has not accepted its message.  The second began with
\* both; socket 1 was disconnected while the put into its full queue was
\* waiting (the timeout that followed left a drop counter for a socket
\* that is not registered), and the call went on to socket 2 and returned.
C28_Witness ==
    /\ Len(calls) = 2 /\ returned = {1, 2}
    /\ calls[1].snap = {1} /\ calls[2].snap = {1, 2}
    /\ evictedBy[1] = "route" /\ ~Registered(1) /\ dropCounts[1] = 1
    /\ Registered(2) /\ acceptedLog[2] = <<TextMsg(2)>>
    /\ acceptedLog[1] = <<TextMsg(1), TextMsg(2)>>

\* A step of the consumer that takes a line and fails to rotate: the old
\* file was not closed, or the new one was not opened.
RotationFailStep ==
    /\ recTask = "running" /\ recQueue # <<>> /\ recQueue' = Tail(recQueue)
    /\ NeedsOpen
    /\ recFh' # hour

\* C29 as stated: when closing the old hour file or opening the new one
\* fails, the consumer keeps running and keeps no stale or closed handle
\* as its current file, so that the next write rotates again; the
\* consumer task never ends by an error.
C29_RotationFailureRetried ==
    /\ [][RotationFailStep =>
            /\ recTask' = "running"
            /\ ~recStale'
            /\ recFh' = -1 /\ recHandles' = {}]_vars
    /\ [](recTask # "dead")

\* A step of the consumer that got past the rollover and wrote no line:
\* the write raised.
WriteFailStep == RolloverDone /\ recWrites' = recWrites

\* C30 as stated: a write error on one line is counted and does not halt
\* the consumer: total_written is not incremented for the line, the line is
\* off the queue, the consumer is still running with its file open, and
\* one of the recorder's counters has counted the failure.
C30_WriteFailureCounted ==
    [][WriteFailStep =>
          /\ totalWritten' = totalWritten
          /\ recQueue' = Tail(recQueue)
          /\ recTask' = "running" /\ recFh' = hour /\ recHandles' = {hour}
          /\ <<totalWritten, droppedTotal>>' # <<totalWritten, droppedTotal>>]_vars

\* A validate_or_adapt call is made in this step.
ValidateCall ==
    Len(acceptedEvents') + rejectedTotal' = Len(acceptedEvents) + rejectedTotal + 1

\* The step accepts an event through the named path and counts it there
\* and nowhere else.
AcceptedAs(name) ==
    /\ lastCall'.ok /\ lastCall'.event.adapter = name
    /\ Len(acceptedEvents') = Len(acceptedEvents) + 1
    /\ adapterCounts' = [adapterCounts EXCEPT ![name] = @ + 1]

\* The step rejects the payload with the named error and counts nothing.
RejectedWith(error) ==
    /\ ~lastCall'.ok /\ lastCall'.error = error
    /\ rejectedTotal' = rejectedTotal + 1
    /\ adapterCounts' = adapterCounts

\* C31 as stated: strict validation comes first and, when it succeeds, no adapter is
\* called and the event is counted as "native"; otherwise the adapters are
\* called in registry order up to the first that returns a result, whose
\* output is validated again and decides (accepted under that adapter's
\* name, or rejected), later adapters not being called; when every adapter
\* declines the validation error is raised; one adapter count grows by one
\* for an accepted event and none for a rejected one.
C31_AdaptInRegistryOrder ==
    [][ValidateCall =>
          LET p == lastCall'.payload
              strict == p.native /\ ~(p.hasSeq /\ p.seq < 0)
              First(i) == /\ ADAPTERS[i] \in p.matches
                          /\ \A j \in 1..(i - 1) : ADAPTERS[j] \notin p.matches
          IN  /\ strict => lastCall'.consulted = <<>> /\ AcceptedAs("native")
              /\ ~strict =>
                    /\ \A i \in DOMAIN ADAPTERS : First(i) =>
                          /\ lastCall'.consulted = SubSeq(ADAPTERS, 1, i)
                          /\ IF p.adaptedOk THEN AcceptedAs(ADAPTERS[i])
                             ELSE RejectedWith("ValidationError")
                    /\ p.matches = {} =>
                          /\ lastCall'.consulted = ADAPTERS
                          /\ RejectedWith("ValidationError")
              /\ lastCall'.ok \/ adapterCounts' = adapterCounts]_vars

RECURSIVE NeverPruned(_)
\* The map and the results of a deduper that never prunes, after the calls
\* of the given log.
NeverPruned(log) ==
    IF log = <<>> THEN [seen |-> <<>>, sends |-> <<>>]
    ELSE LET before == NeverPruned(SubSeq(log, 1, Len(log) - 1))
             call == log[Len(log)]
             send == ~(call.key \in DOMAIN before.seen
                         /\ call.t - before.seen[call.key] < DedupTtl)
         IN  [seen |-> IF send
                       THEN [k \in DOMAIN before.seen \cup {call.key} |->
                               IF k = call.key THEN call.t ELSE before.seen[k]]
                       ELSE before.seen,
              sends |-> Append(before.sends, send)]

\* C32: should_send removes entries only in a call that leaves more than
\* max_keys entries in the map, and only entries older than now - ttl;
\* every call returns what a deduper that never prunes returns, and every
\* entry still in the map is that deduper's entry.
C32_PruneChangesNoResult ==
    /\ [](LET ref == NeverPruned(dedupLog)
          IN  /\ \A i \in DOMAIN dedupLog : dedupLog[i].send = ref.sends[i]
              /\ \A k \in DOMAIN seen : k \in DOMAIN ref.seen /\ seen[k] = ref.seen[k])
    /\ [][\A k \in DOMAIN seen : k \notin DOMAIN seen' =>
              /\ Cardinality(DOMAIN seen \cup {dedupLog'[Len(dedupLog')].key}) > DedupMaxKeys
              /\ seen[k] < now - DedupTtl]_vars

\* An alert was sent at time 0; one of another key, sent at time 3, made
\* the map exceed max_keys and the first entry, older than now - ttl, was
\* pruned; the first alert came again at time 3 and was sent, as it would
\* have been with its entry still in the map.
C32_Witness ==
    /\ Len(dedupLog) = 3 /\ now = 3
    /\ dedupLog[1].t = 0 /\ dedupLog[1].send
    /\ dedupLog[2].t = 3 /\ dedupLog[2].send /\ dedupLog[2].key # dedupLog[1].key
    /\ dedupLog[3].key = dedupLog[1].key /\ dedupLog[3].send
    /\ DOMAIN seen = {dedupLog[1].key, dedupLog[2].key}
    /\ totalSuppressed = 0

\* The calls before the i-th that were for the same key and returned true.
SentBefore(i) ==
    {j \in 1..(i - 1) : dedupLog[j].key = dedupLog[i].key /\ dedupLog[j].send}

\* C33: the window is fixed, not sliding.  A call returns true if and only
\* if no alert of its key was sent before or the last one that was sent
\* lies at least ttl back, whatever calls were suppressed in between; a
\* suppressed call leaves the stored timestamp as it is; and total_checked
\* is the number of true results plus total_suppressed.
C33_FixedWindow ==
    /\ [](/\ \A i \in DOMAIN dedupLog :
               dedupLog[i].send <=>
                  \A j \in SentBefore(i) : dedupLog[i].t - dedupLog[j].t >= DedupTtl
          /\ totalChecked = Len(dedupLog)
          /\ totalChecked =
               Cardinality({i \in DOMAIN dedupLog : dedupLog[i].send}) + totalSuppressed)
    /\ [][(totalSuppressed' = totalSuppressed + 1) => seen' = seen]_vars

\* An alert was sent at time 0, its duplicate suppressed at time 1, and the
\* same alert sent again at time 2, ttl after the one that was sent and
\* less than ttl after the one that was suppressed.
C33_Witness ==
    /\ Len(dedupLog) = 3
    /\ \A i \in 1..3 : dedupLog[i].key = dedupLog[1].key
    /\ dedupLog[1].t = 0 /\ dedupLog[1].send
    /\ dedupLog[2].t = 1 /\ ~dedupLog[2].send
    /\ dedupLog[3].t = DedupTtl /\ dedupLog[3].send
    /\ totalChecked = 3 /\ totalSuppressed = 1

----------------------------------------------------------------------------
(* Rule-engine state across reloads *)

\* The position in the log of the last Rules.load(), 0 if there was none
\* after the one at startup.
LastLoad ==
    LET loads == {k \in DOMAIN evalLog : evalLog[k].load}
    IN  IF loads = {} THEN 0 ELSE CHOOSE k \in loads : \A j \in loads : j <= k

\* The alerts emitted for rules of the given name since the last load.
EmittedSinceLoad(name) ==
    {<<k, j>> \in (DOMAIN evalLog) \X (1..MaxRules) :
        /\ k > LastLoad
        /\ j \in DOMAIN evalLog[k].alerts
        /\ ruleSet[evalLog[k].alerts[j]].name = name}

\* The step is Rules.load().
LoadStep == Len(evalLog') = Len(evalLog) + 1 /\ evalLog'[Len(evalLog')].load

\* The step is an evaluation that emits an alert for a rule of the name.
EmitStep(name) ==
    /\ Len(evalLog') = Len(evalLog) + 1
    /\ ~evalLog'[Len(evalLog')].load
    /\ \E j \in DOMAIN evalLog'[Len(evalLog')].alerts :
          ruleSet[evalLog'[Len(evalLog')].alerts[j]].name = name

\* C34: the cooldown state and the fire count of a rule name change only in
\* an evaluation that emits an alert for that name or in Rules.load(); a
\* load leaves every name without cooldown state and with a count of zero;
\* and the fire count of a name is always the number of alerts emitted for
\* that name since the last load, so that a match suppressed by the
\* cooldown is not counted.
C34_RuleStateSinceLoad ==
    /\ [](\A n \in RuleNames : fireCounts[n] = Cardinality(EmittedSinceLoad(n)))
    /\ [][\A n \in RuleNames :
             (lastFired'[n] # lastFired[n] \/ fireCounts'[n] # fireCounts[n])
                 => LoadStep \/ EmitStep(n)]_vars
    /\ [][LoadStep => \A n \in RuleNames :
                          lastFired'[n] = -1 /\ fireCounts'[n] = 0]_vars

\* A rule with a cooldown fired twice for two events a cooldown apart, the
\* file was reloaded, and of two matching events after the reload the first
\* fired and the second was suppressed: the count is one.
C34_Witness ==
    /\ Len(evalLog) = 4
    /\ evalLog[1].alerts # <<>> /\ ~evalLog[1].load
    /\ evalLog[2].load
    /\ evalLog[2].lastBefore # [n \in RuleNames |-> -1]
    /\ evalLog[3].alerts = <<1>> /\ evalLog[3].time = evalLog[2].time
    /\ ~evalLog[4].load /\ evalLog[4].matched = {1} /\ evalLog[4].alerts = <<>>
    /\ Len(ruleSet) = 1
    /\ fireCounts[ruleSet[1].name] = 1
    /\ lastFired[ruleSet[1].name] = evalLog[3].time

----------------------------------------------------------------------------
(* Drop counters of sockets that are gone *)

\* No hub method is in the middle of executing: no broadcast_text call is
\* under way, and every sender is waiting in queue.get() or has ended.
HubQuiescent ==
    /\ \A t \in Tasks : task[t].pc = "idle"
    /\ \A ws \in Sockets : sender[ws] \in {"none", "waiting", "done"}

\* C35 as stated: whenever no hub method is executing, every socket that
\* has an entry in the drop-counter map is registered.
C35_NoStaleDropCounter ==
    HubQuiescent => \A ws \in Sockets : dropCounts[ws] > 0 => Registered(ws)

----------------------------------------------------------------------------
(* The second put of the backpressure handling *)

\* C36: the put_nowait that follows the discard of the oldest message
\* always succeeds, also while another broadcast waits to put on the same
\* queue: every timeout step appends its message to the queue, no socket is
\* ever evicted for a saturated queue, and a timeout step evicts the socket
\* only when the drop counter has reached the threshold.
C36_SecondPutSucceeds ==
    /\ [](\A ws \in Sockets : evictedBy[ws] # "saturated")
    /\ [][\A t \in Tasks :
             LET ws == Head(task[t].snap)
             IN  TimeoutStep(t)
                 => /\ queues'[ws] # <<>>
                    /\ queues'[ws][Len(queues'[ws])] = task[t].msg
                    /\ acceptedLog'[ws] = Append(acceptedLog[ws], task[t].msg)
                    /\ Len(queues'[ws]) <= wsQueueMax
                    /\ (Registered(ws) /\ ws \notin Range(clients'))
                         => /\ evictedBy'[ws] = "backpressure"
                            /\ dropCounts[ws] + 1 >= maxBackpressureRetries]_vars

\* Two broadcasts waited on the full queue of one subscriber; the timeout
\* of the later one discarded the first message and queued its own while
\* the earlier one was still waiting, and the subscriber was kept.
C36_Witness ==
    /\ wsQueueMax = 1 /\ maxBackpressureRetries = 2
    /\ Registered(1) /\ dropCounts[1] = 1 /\ wsDroppedTotal = 1
    /\ queues[1] = <<TextMsg(3)>>
    /\ acceptedLog[1] = <<TextMsg(1), TextMsg(3)>>
    /\ \E t \in Tasks :
          task[t].pc = "blocked" /\ task[t].msg = TextMsg(2) /\ Head(task[t].snap) = 1

----------------------------------------------------------------------------
(* UDP accounting *)

\* The accepted events that note_validated has counted.
ValidatedEvents ==
    {n \in DOMAIN acceptedEvents :
        \E k \in DOMAIN pipeLog : pipeLog[k].op = "validated" /\ pipeLog[k].ev = n}

\* The accepted events whose dispatch a cancellation ended.
CancelledEvents ==
    {n \in DOMAIN acceptedEvents :
        \E k \in DOMAIN pipeLog : pipeLog[k].op = "cancelled" /\ pipeLog[k].ev = n}

\* What datagram_received and the consumer do with a datagram: a datagram
\* is discarded as empty, counted as dropped or enqueued; an item taken
\* from the queue is counted as dropped or accepted, never both; nothing
\* else counts a drop; an accepted event is counted as validated at most
\* once; udp_received covers the drops, the accepted events and the queue.
DatagramAccounting ==
    /\ [](udpReceived >= statsDropped + Len(acceptedEvents) + Len(udpQueue))
    /\ [](udpReceived >= statsDropped + validatedTotal)
    /\ [](validatedTotal = Cardinality(ValidatedEvents))
    /\ [][DatagramStep =>
            LET text == DecodeStrip(lastDatagram')
            IN  \/ /\ ~Truthy(text)
                   /\ statsDropped' = statsDropped /\ udpQueue' = udpQueue
                \/ /\ Truthy(text)
                   /\ statsDropped' = statsDropped + 1 /\ udpQueue' = udpQueue
                \/ /\ Truthy(text)
                   /\ statsDropped' = statsDropped /\ udpQueue' = Append(udpQueue, text)]_vars
    /\ [][ConsumeStep =>
            \/ /\ statsDropped' = statsDropped + 1
               /\ acceptedEvents' = acceptedEvents
            \/ /\ statsDropped' = statsDropped
               /\ Len(acceptedEvents') = Len(acceptedEvents) + 1]_vars
    /\ [][statsDropped' # statsDropped => DatagramStep \/ ConsumeStep]_vars
    /\ [][Len(acceptedEvents') # Len(acceptedEvents) => ConsumeStep]_vars
    /\ [][validatedTotal' # validatedTotal =>
            /\ validatedTotal' = validatedTotal + 1
            /\ statsDropped' = statsDropped]_vars

\* C37 as stated: every datagram is accounted for exactly once, so that
\* every datagram the consumer has accepted and is no longer working on
\* has been counted in validated_total.
C37_EveryDatagramCounted ==
    /\ DatagramAccounting
    /\ [](udpTask # "busy" => validatedTotal = Len(acceptedEvents))

\* C37, amended: as above, for every datagram but the one whose dispatch
\* the cancellation of the consumer ended before note_validated: an
\* accepted event that is not counted in validated_total is the one being
\* dispatched or the one that was cancelled, and once the consumer is
\* cancelled the datagrams left in the queue are counted nowhere.
C37_CountedUnlessCancelled ==
    /\ DatagramAccounting
    /\ [](udpTask = "waiting" => validatedTotal = Len(acceptedEvents))
    /\ [](\A n \in DOMAIN acceptedEvents :
             n \notin ValidatedEvents
                 => \/ udpTask = "busy" /\ ingest[UdpConsumer].ev = n
                    \/ udpTask = "cancelled" /\ n \in CancelledEvents)
    /\ [](Cardinality(DOMAIN acceptedEvents \ ValidatedEvents) <= 1)

\* Of three datagrams one was empty after stripping, one was rejected by
\* the consumer and counted as dropped, and one was accepted and counted
\* as validated; the consumer is back at queue.get.
C37_Witness ==
    /\ udpReceived = 3 /\ udpQueue = <<>> /\ udpTask = "waiting"
    /\ udpTaken = 2 /\ udpDone = 2
    /\ statsDropped = 1 /\ rejectedTotal = 1
    /\ validatedTotal = 1 /\ Len(acceptedEvents) = 1 /\ dispatched = {1}

----------------------------------------------------------------------------
(* The prune and the open hour file *)

\* C38 as stated: no step removes the hour file the recorder has open for
\* writing, whatever the retention and the spacing of the writes.
C38_OpenFileNeverPruned ==
    [][\A h \in Removed : h # recFh']_vars

----------------------------------------------------------------------------
(* Overlapping ingest calls and the order of sequence *)

\* The sequences of the events in a list of messages, in the list's order.
RECURSIVE EventSeqs(_)
EventSeqs(msgs) ==
    IF msgs = <<>> THEN <<>>
    ELSE IF Head(msgs).kind = "event" THEN <<Head(msgs).seq>> \o EventSeqs(Tail(msgs))
    ELSE EventSeqs(Tail(msgs))

\* The numbers of the list grow from each to the next.
Increasing(ns) == \A i, j \in DOMAIN ns : i < j => ns[i] < ns[j]

\* C39 as stated: whatever the overlap of the ingest calls, the events are
\* passed to recorder.enqueue, and put into every subscriber's queue, in
\* increasing order of sequence.
C39_InSequenceOrder ==
    /\ Increasing(EventSeqs([i \in DOMAIN recOffered |-> recOffered[i].line]))
    /\ \A ws \in Sockets : Increasing(EventSeqs(acceptedLog[ws]))

\* The position in the dispatch log of the entry of the given kind for the
\* n-th accepted event, 0 if there is none.
LogPos(op, n) ==
    LET ks == {k \in DOMAIN pipeLog : pipeLog[k].op = op /\ pipeLog[k].ev = n}
    IN  IF ks = {} THEN 0 ELSE CHOOSE k \in ks : \A other \in ks : k <= other

\* The ingest call of event j began before the broadcast of event i had
\* returned.
Overlapped(i, j) ==
    /\ LogPos("broadcast", j) > 0
    /\ LogPos("enqueue", i) = 0 \/ LogPos("broadcast", j) < LogPos("enqueue", i)

\* Every event that stands in the list before an event accepted earlier
\* began its ingest call while that event's broadcast was under way.
OvertakenOnlyInOverlap(msgs) ==
    \A a, b \in DOMAIN msgs :
        (a < b /\ msgs[a].kind = "event" /\ msgs[b].kind = "event"
               /\ msgs[a].id > msgs[b].id)
            => Overlapped(msgs[b].id, msgs[a].id)

\* C39, amended: the service assigns sequences in the order in which the
\* ingest calls begin, and an event reaches the recorder or a subscriber's
\* queue before an event of a lower sequence only if its ingest call began
\* while the broadcast of that event had not returned; calls that do not
\* overlap are enqueued and put in increasing order of sequence.
C39_OrderedUnlessOverlapping ==
    /\ Increasing([n \in DOMAIN acceptedEvents |-> acceptedEvents[n].seq])
    /\ \A n \in DOMAIN acceptedEvents : acceptedEvents[n].seq = n
    /\ OvertakenOnlyInOverlap([i \in DOMAIN recOffered |-> recOffered[i].line])
    /\ OvertakenOnlyInOverlap(recQueue)
    /\ \A ws \in Sockets : OvertakenOnlyInOverlap(acceptedLog[ws])

\* The first event filled the subscriber's queue; the second waited to put
\* while the third, whose call began later, found room, was put and
\* enqueued; the second was put and enqueued after it.
C39_Witness ==
    /\ acceptedLog[1] = <<EventMsg(1, 1), EventMsg(3, 3), EventMsg(2, 2)>>
    /\ recOffered = <<[line |-> EventMsg(1, 1), queued |-> TRUE],
                      [line |-> EventMsg(3, 3), queued |-> TRUE],
                      [line |-> EventMsg(2, 2), queued |-> FALSE]>>
    /\ Registered(1)

----------------------------------------------------------------------------
(* Delivery *)

\* The message is in the queue of ws.
InQueue(ws, m) == \E i \in DOMAIN queues[ws] : queues[ws][i] = m

\* The message was accepted into the queue of ws and was discarded from it
\* without being sent.
Discarded(ws, m) ==
    /\ m \in Range(acceptedLog[ws])
    /\ ~InQueue(ws, m) /\ inflight[ws] # m /\ m \notin Range(sentLog[ws])

\* The messages sent to all sockets together.
RECURSIVE SentCount(_)
SentCount(socks) ==
    IF socks = {} THEN 0
    ELSE LET ws == CHOOSE x \in socks : TRUE
         IN  Len(sentLog[ws]) + SentCount(socks \ {ws})

\* C40: while a subscriber stays registered and its sends complete, every
\* message in its queue is eventually sent to it unless drop-oldest
\* discards it; ws_sent is the number of messages sent, and it grows by
\* one in every step that sends a message and in no other.
C40_DeliveryLiveness ==
    /\ \A ws \in Sockets : \A n \in 1..HubBroadcasts :
          (Registered(ws) /\ InQueue(ws, TextMsg(n)))
              ~> \/ TextMsg(n) \in Range(sentLog[ws])
                 \/ ~Registered(ws)
                 \/ Discarded(ws, TextMsg(n))
    /\ [](wsSentTotal = SentCount(Sockets))
    /\ [][\A ws \in Sockets :
             /\ Len(sentLog'[ws]) <= Len(sentLog[ws]) + 1
             /\ sentLog'[ws] # sentLog[ws] =>
                   /\ sentLog'[ws] = Append(sentLog[ws], inflight[ws])
                   /\ wsSentTotal' = wsSentTotal + 1]_vars
    /\ [][wsSentTotal' # wsSentTotal => sentLog' # sentLog]_vars

\* Of three messages accepted by a subscriber with a queue of one the
\* second was discarded by drop-oldest; the first and the third have been
\* sent, ws_sent is 2, and the subscriber is still registered.
C40_Witness ==
    /\ wsQueueMax = 1 /\ Registered(1)
    /\ acceptedLog[1] = <<TextMsg(1), TextMsg(2), TextMsg(3)>>
    /\ sentLog[1] = <<TextMsg(1), TextMsg(3)>>
    /\ wsSentTotal = 2 /\ wsDroppedTotal = 1
    /\ queues[1] = <<>> /\ inflight[1] = NoMsg

====
